---- MODULE Spec2Model ----
(***************************************************************************)
(* Fluent surface-mesh loader of pyNastran (converters/fluent/fluent_io.py) *)
(* as a state machine: FluentIO.load_fluent_geometry, _create_elements and  *)
(* _fill_fluent_case, with the helpers they call.                           *)
(*                                                                          *)
(* Arrays are sequences; a 2-D array is a sequence of rows.  A face row is  *)
(* <<element id, region id, node id, ...>> (5 columns for a triangle, 6 for *)
(* a quadrilateral), as _create_elements asserts.                           *)
(***************************************************************************)
EXTENDS Integers, Sequences, FiniteSets, TLC

\* ---------------------------------------------------------------- bounds
\* node ids are drawn from 1..MaxNid
MaxNid == 4
\* a node-id array has 1..MaxNodes entries
MaxNodes == 4
\* face tables handed to _create_elements directly (SpecPack)
MaxQuads == 2
MaxTris == 3
\* faces in a mesh file (Spec)
MaxFaces == 2
\* region tags are drawn from 1..MaxRegion
MaxRegion == 2
\* imported result columns of a mesh file
MaxFields == 2
\* node coordinates of the geometry inputs are drawn from 0..MaxCoord
MaxCoord == 1
\* length conversion factors tried are 1..MaxScale
MaxScale == 2
\* vector components given to perpendicular_vector are -MaxComp..MaxComp
MaxComp == 2
\* arrays given to perpendicular_vector2d have 1..MaxRows rows
MaxRows == 3
\* arrays written by savetxt_nice hold integers -MaxVal..MaxVal
MaxVal == 12
\* arrays written by savetxt_nice have 1..MaxDim rows and columns
MaxDim == 2

\* largest result case of the legend window
MaxCase == 1

\* ---------------------------------------------------------------- arrays
RECURSIVE hstack(_)
\* np.hstack of a list of 1-D arrays
hstack(list) ==
    IF list = <<>> THEN <<>> ELSE Head(list) \o hstack(Tail(list))

\* ndarray.ravel() of a 2-D array: the rows one after the other
ravel(a) == hstack(a)

\* set of the values of an array
Values(a) == {a[i] : i \in DOMAIN a}

\* np.unique(a) has one entry per distinct value
NUnique(a) == Cardinality(Values(a))

\* minimum of a non-empty set of integers
SetMin(S) == CHOOSE x \in S : \A y \in S : x <= y

\* slip: a[:, 1:], the region column taken for the first node column
NodeColumnsFromRegion(faces) ==
    [c \in DOMAIN faces |-> SubSeq(faces[c], 2, Len(faces[c]))]

\* a[:, 2:] of a face table: the node-id columns of every row
NodeColumns(faces) == [c \in DOMAIN faces |-> SubSeq(faces[c], 3, Len(faces[c]))]

\* a[:, k] of a 2-D array (k is 1-based here)
Column(a, k) == [r \in DOMAIN a |-> a[r][k]]

\* ---------------------------------------------------------------- errors
NoError == [type |-> "none", line |-> 0, ids |-> {}]

Raise(type, line, ids) == [type |-> type, line |-> line, ids |-> ids]

\* ---------------------------------------------------------------- renderer grid
\* the vtkUnstructuredGrid before anything is written to it
EmptyGrid ==
    [allocated |-> -1, points |-> <<>>, nelement |-> -1,
     n_nodes |-> <<>>, cell_type |-> <<>>, cell_offset |-> <<>>,
     modified |-> FALSE]

\* ---------------------------------------------------------------- connectivity packer
\* node id -> local 0-based index, the lookup built from the node set
\* (-1: the id has no local index)
LocalIndex(node_id, nid) ==
    IF nid \in Values(node_id)
    THEN (CHOOSE i \in DOMAIN node_id : node_id[i] = nid) - 1
    ELSE -1

\* create_offset_arrays: one shape group of nelement cells with dnode nodes
\* each.  The code has one 2-D array (n_nodesi, ravel()-ed by the caller) for
\* everything the renderer learns about a cell besides its type and offset:
\* a row is the cell's node count followed by its local node indices.
create_offset_arrays(node_id, element_nodes, nelement, cell_type, cell_offset0, dnode) ==
    [cell_offset0 |-> cell_offset0 + nelement * dnode,
     n_nodesi     |-> [c \in 1..nelement |->
                         <<dnode>> \o [j \in 1..dnode |->
                                         LocalIndex(node_id, element_nodes[c][j])]],
     cell_typei   |-> [c \in 1..nelement |-> cell_type],
     cell_offseti |-> [c \in 1..nelement |-> cell_offset0 + c * dnode]]

\* build_vtk_geometry: hands the packed arrays to the renderer grid
build_vtk_geometry(nelement, ugrid, n_nodes, cell_type, cell_offset) ==
    [ugrid EXCEPT !.nelement = nelement, !.n_nodes = n_nodes,
                  !.cell_type = cell_type, !.cell_offset = cell_offset]

\* vtk cell type codes
VtkQuad == 9
VtkTriangle == 5

\* slip: the quad pass emits the triangle type code
QuadPassTriangleCode(node_id, quad_nodes, nquad, cell_offset0) ==
    IF nquad # 0
    THEN LET o == create_offset_arrays(node_id, quad_nodes, nquad, VtkTriangle, cell_offset0, 4)
         IN  [cell_offset0 |-> o.cell_offset0,
              n_nodes_list |-> <<ravel(o.n_nodesi)>>,
              cell_type_list |-> <<o.cell_typei>>,
              cell_offset_list |-> <<o.cell_offseti>>,
              calls |-> <<"create_offset_arrays">>]
    ELSE [cell_offset0 |-> cell_offset0, n_nodes_list |-> <<>>,
          cell_type_list |-> <<>>, cell_offset_list |-> <<>>, calls |-> <<>>]

\* the quadrilateral pass of _create_elements
QuadPass(node_id, quad_nodes, nquad, cell_offset0) ==
    IF nquad # 0
    THEN LET o == create_offset_arrays(node_id, quad_nodes, nquad, VtkQuad, cell_offset0, 4)
         IN  [cell_offset0 |-> o.cell_offset0,
              n_nodes_list |-> <<ravel(o.n_nodesi)>>,
              cell_type_list |-> <<o.cell_typei>>,
              cell_offset_list |-> <<o.cell_offseti>>,
              calls |-> <<"create_offset_arrays">>]
    ELSE [cell_offset0 |-> cell_offset0, n_nodes_list |-> <<>>,
          cell_type_list |-> <<>>, cell_offset_list |-> <<>>, calls |-> <<>>]

\* slip: the triangle pass restarts the running offset at 0
TriPassOffsetReset(node_id, tri_nodes, ntri, q) ==
    IF ntri # 0
    THEN LET o == create_offset_arrays(node_id, tri_nodes, ntri, VtkTriangle, 0, 3)
         IN  [cell_offset0 |-> o.cell_offset0,
              n_nodes_list |-> Append(q.n_nodes_list, ravel(o.n_nodesi)),
              cell_type_list |-> Append(q.cell_type_list, o.cell_typei),
              cell_offset_list |-> Append(q.cell_offset_list, o.cell_offseti),
              calls |-> Append(q.calls, "create_offset_arrays")]
    ELSE q

\* slip: the triangle pass appends the node counts without the node indices
TriPassCountsOnly(node_id, tri_nodes, ntri, q) ==
    IF ntri # 0
    THEN LET o == create_offset_arrays(node_id, tri_nodes, ntri, VtkTriangle, q.cell_offset0, 3)
         IN  [cell_offset0 |-> o.cell_offset0,
              n_nodes_list |-> Append(q.n_nodes_list, Column(o.n_nodesi, 1)),
              cell_type_list |-> Append(q.cell_type_list, o.cell_typei),
              cell_offset_list |-> Append(q.cell_offset_list, o.cell_offseti),
              calls |-> Append(q.calls, "create_offset_arrays")]
    ELSE q

\* the triangle pass of _create_elements, continuing from the quad pass
TriPass(node_id, tri_nodes, ntri, q) ==
    IF ntri # 0
    THEN LET o == create_offset_arrays(node_id, tri_nodes, ntri, VtkTriangle, q.cell_offset0, 3)
         IN  [cell_offset0 |-> o.cell_offset0,
              n_nodes_list |-> Append(q.n_nodes_list, ravel(o.n_nodesi)),
              cell_type_list |-> Append(q.cell_type_list, o.cell_typei),
              cell_offset_list |-> Append(q.cell_offset_list, o.cell_offseti),
              calls |-> Append(q.calls, "create_offset_arrays")]
    ELSE q

\* slip: the triangles are left out of the element count
NelementTotalQuadsOnly(nquad, ntri) == nquad

\* nelement_total = nquad + ntri
NelementTotal(nquad, ntri) == nquad + ntri

\* slip: only the triangle nodes are collected for the missing-node check
AllNodesTrisOnly(tri_nodes, quad_nodes) == Values(ravel(tri_nodes))

\* np.unique(np.hstack([tri_nodes.ravel(), quad_nodes.ravel()])), as a set
AllNodes(tri_nodes, quad_nodes) ==
    Values(ravel(tri_nodes)) \cup Values(ravel(quad_nodes))

\* np.setdiff1d(all_nodes, node_id)
MissingNodes(all_nodes, node_id) == all_nodes \ Values(node_id)

\* lines 167-173: t holds the lists the two passes filled
Packed(ugrid, nelement_total, t) ==
    IF t.n_nodes_list = <<>>
    THEN [ugrid |-> ugrid, err |-> Raise("ValueError", 167, {}), calls |-> t.calls]
    ELSE [ugrid |-> build_vtk_geometry(nelement_total, ugrid,
                                       hstack(t.n_nodes_list),
                                       hstack(t.cell_type_list),
                                       hstack(t.cell_offset_list)),
          err |-> NoError,
          calls |-> Append(t.calls, "build_vtk_geometry")]

\* _create_elements(ugrid, node_id, tris, quads): the grid it leaves, the
\* error it raises (if any) and the helper calls it made, in order
_create_elements(ugrid, node_id, tris, quads) ==
    LET nquad == Len(quads)
        ntri == Len(tris)
        nelement_total == NelementTotal(nquad, ntri)
        tri_nodes == NodeColumns(tris)
        quad_nodes == NodeColumns(quads)
        all_nodes == AllNodes(tri_nodes, quad_nodes)
        missing_nodes == MissingNodes(all_nodes, node_id)
        fail(e) == [ugrid |-> ugrid, err |-> e, calls |-> <<>>]
    IN  IF \E c \in DOMAIN tris : Len(tris[c]) # 5
        THEN fail(Raise("AssertionError", 134, {}))
        ELSE IF \E c \in DOMAIN quads : Len(quads[c]) # 6
        THEN fail(Raise("AssertionError", 135, {}))
        ELSE IF node_id = <<>>
        THEN fail(Raise("ValueError", 140, {}))
        ELSE IF ~(SetMin(Values(node_id)) >= 1)
        THEN fail(Raise("AssertionError", 140, {SetMin(Values(node_id))}))
        ELSE IF all_nodes = {}
        THEN fail(Raise("ValueError", 142, {}))
        ELSE IF ~(SetMin(all_nodes) >= 1)
        THEN fail(Raise("AssertionError", 142, {SetMin(all_nodes)}))
        ELSE IF missing_nodes # {}
        THEN fail(Raise("AssertionError", 144, missing_nodes))
        ELSE Packed(ugrid, nelement_total,
                    TriPass(node_id, tri_nodes, ntri,
                            QuadPass(node_id, quad_nodes, nquad, 0)))

\* ---------------------------------------------------------------- unit conversion
\* convert_length / convert_pressure: the value re-expressed in another unit.
\* The scale factor is kept symbolic: a converted quantity records the value
\* it was computed from and the two units.
Convert(x, from, to) == [val |-> x, from |-> from, to |-> to]

convert_length(nodes, from, to) ==
    [i \in DOMAIN nodes |-> [k \in 1..3 |-> Convert(nodes[i][k], from, to)]]

convert_pressure(col, from, to) ==
    [r \in DOMAIN col |-> Convert(col[r], from, to)]

\* ---------------------------------------------------------------- region filter
\* does a face with this region tag survive the filter
Keep(region, regions_to_remove, regions_to_include) ==
    IF regions_to_include # {} THEN region \in regions_to_include
    ELSE IF regions_to_remove # {} THEN region \notin regions_to_remove
    ELSE TRUE

RECURSIVE KeptFromDescending(_, _, _, _)
\* slip: the surviving indices collected last face first
KeptFromDescending(faces, i, regions_to_remove, regions_to_include) ==
    IF i > Len(faces) THEN <<>>
    ELSE KeptFromDescending(faces, i + 1, regions_to_remove, regions_to_include)
         \o (IF Keep(faces[i][2], regions_to_remove, regions_to_include)
             THEN <<i>> ELSE <<>>)

RECURSIVE KeptFrom(_, _, _, _)
\* indices (ascending) of the faces from position i on that survive
KeptFrom(faces, i, regions_to_remove, regions_to_include) ==
    IF i > Len(faces) THEN <<>>
    ELSE (IF Keep(faces[i][2], regions_to_remove, regions_to_include)
          THEN <<i>> ELSE <<>>)
         \o KeptFrom(faces, i + 1, regions_to_remove, regions_to_include)

\* Fluent.get_filtered_data: the kept faces of each shape in their original
\* order, the element ids and regions as kept quads then kept triangles, and
\* the result rows of the kept elements (rows of model.results follow the
\* quads-then-triangles order of the unfiltered tables)
get_filtered_data(model, regions_to_remove, regions_to_include) ==
    LET iq == KeptFrom(model.quads, 1, regions_to_remove, regions_to_include)
        it == KeptFrom(model.tris, 1, regions_to_remove, regions_to_include)
        quads == [k \in DOMAIN iq |-> model.quads[iq[k]]]
        tris == [k \in DOMAIN it |-> model.tris[it[k]]]
        nq0 == Len(model.quads)
    IN  [element_id |-> Column(quads, 1) \o Column(tris, 1),
         tris |-> tris,
         quads |-> quads,
         region |-> Column(quads, 2) \o Column(tris, 2),
         results |-> [ncols |-> model.results.ncols,
                      rows |-> [k \in DOMAIN iq |-> model.results.rows[iq[k]]]
                               \o [k \in DOMAIN it |-> model.results.rows[nq0 + it[k]]]]]

\* ---------------------------------------------------------------- geometry derivation
Sub(a, b) == <<a[1] - b[1], a[2] - b[2], a[3] - b[3]>>

\* slip: the two edge vectors crossed in the other order
CrossReversed(a, b) == <<a[3] * b[2] - a[2] * b[3],
                         a[1] * b[3] - a[3] * b[1],
                         a[2] * b[1] - a[1] * b[2]>>

Cross(a, b) == <<a[2] * b[3] - a[3] * b[2],
                 a[3] * b[1] - a[1] * b[3],
                 a[1] * b[2] - a[2] * b[1]>>

Dot(a, b) == a[1] * b[1] + a[2] * b[2] + a[3] * b[3]

RECURSIVE VecSum(_)
VecSum(ps) ==
    IF ps = <<>> THEN <<0, 0, 0>>
    ELSE LET r == VecSum(Tail(ps))
         IN  <<Head(ps)[1] + r[1], Head(ps)[2] + r[2], Head(ps)[3] + r[3]>>

\* area, centroid and normal of one face from its node ids.  Exact values:
\* area = sqrt(rad)/2, normal = vec/sqrt(rad), centroid = sum/div, with vec
\* the cross product of two edges at the first vertex (triangle) or of the
\* two diagonals (quadrilateral).  A face whose nodes are collinear or
\* coincident has the zero cross product: its area is 0 and every component
\* of its normal has num = 0, the zero vector (no guard, nothing flagged).
\* A face naming a node that is not in the node set has no coordinates to
\* derive from (rad = -1, div = 0).
FaceGeometry(model, nodes) ==
    IF \E j \in DOMAIN nodes : nodes[j] \notin Values(model.node_id)
    THEN [area |-> [rad |-> -1, div |-> 0],
          centroid |-> [sum |-> <<0, 0, 0>>, div |-> 0],
          normal |-> [k \in 1..3 |-> [num |-> 0, rad |-> -1]]]
    ELSE LET p == [j \in DOMAIN nodes |->
                     model.xyz[CHOOSE i \in DOMAIN model.node_id :
                                  model.node_id[i] = nodes[j]]]
             n == IF Len(nodes) = 3
                  THEN Cross(Sub(p[2], p[1]), Sub(p[3], p[1]))
                  ELSE Cross(Sub(p[3], p[1]), Sub(p[4], p[2]))
         IN  [area |-> [rad |-> Dot(n, n), div |-> 2],
              centroid |-> [sum |-> VecSum(p), div |-> Len(nodes)],
              normal |-> [k \in 1..3 |-> [num |-> n[k], rad |-> Dot(n, n)]]]

\* Fluent.get_area_centroid_normal(tris, quads): one row per face, per shape
get_area_centroid_normal(model, tris, quads) ==
    LET tg == [c \in DOMAIN tris |-> FaceGeometry(model, SubSeq(tris[c], 3, 5))]
        qg == [c \in DOMAIN quads |-> FaceGeometry(model, SubSeq(quads[c], 3, 6))]
    IN  [tri_area |-> [c \in DOMAIN tg |-> tg[c].area],
         quad_area |-> [c \in DOMAIN qg |-> qg[c].area],
         tri_centroid |-> [c \in DOMAIN tg |-> tg[c].centroid],
         quad_centroid |-> [c \in DOMAIN qg |-> qg[c].centroid],
         tri_normal |-> [c \in DOMAIN tg |-> tg[c].normal],
         quad_normal |-> [c \in DOMAIN qg |-> qg[c].normal]]

\* area*0 + k, elementwise: an array of k as long as the area array
ZeroPlus(area, k) == [c \in DOMAIN area |-> k]

\* np.vstack([quad_x, tri_x]) / np.hstack([quad_x, tri_x]): quads first
Stack(quad_x, tri_x) == quad_x \o tri_x

\* slip: the node counts stacked triangles first
NnodesArrayTrisFirst(quad_area, tri_area) ==
    Stack(ZeroPlus(tri_area, 3), ZeroPlus(quad_area, 4))

\* nnodes_array = np.hstack([quad_area*0+4, tri_area*0+3])
NnodesArray(quad_area, tri_area) ==
    Stack(ZeroPlus(quad_area, 4), ZeroPlus(tri_area, 3))

\* ---------------------------------------------------------------- field assembler
\* slip: the data_format argument is dropped
GuiResultNoFormat(ID, header, title, location, scalar, data_format) ==
    [class |-> "GuiResult", subcase_id |-> ID, header |-> header, title |-> title,
     location |-> location, scalar |-> scalar, data_format |-> "none"]

\* GuiResult(ID, header, title, location, scalar, data_format=None)
GuiResult(ID, header, title, location, scalar, data_format) ==
    [class |-> "GuiResult", subcase_id |-> ID, header |-> header, title |-> title,
     location |-> location, scalar |-> scalar, data_format |-> data_format]

\* NormalResult(0, 'Normals', 'Normals', ..., data_format='%.1f'): it is given
\* neither a location nor values
NormalResult(ID, header, title, data_format) ==
    [class |-> "NormalResult", subcase_id |-> ID, header |-> header, title |-> title,
     location |-> "none", scalar |-> <<>>, data_format |-> data_format]

\* one entry of the cases dict: (result, (itime, name))
Case(res, name) == [res |-> res, key |-> <<0, name>>]

\* the eight fixed cases, keyed icase = 0..7
FixedCases(ID, node_ids, element_ids, region, normal, nnodes_array) ==
    [icase \in 0..7 |->
       CASE icase = 0 -> Case(GuiResult(ID, "NodeID", "NodeID", "node", node_ids, "none"), "NodeID")
         [] icase = 1 -> Case(GuiResult(ID, "ElementID", "ElementID", "centroid", element_ids, "none"), "ElementID")
         [] icase = 2 -> Case(GuiResult(ID, "Region", "Region", "centroid", region, "none"), "Region")
         [] icase = 3 -> Case(NormalResult(0, "Normals", "Normals", "%.1f"), "Normal")
         [] icase = 4 -> Case(GuiResult(ID, "normal_x", "NormalX", "centroid", Column(normal, 1), "%.3f"), "NormalX")
         [] icase = 5 -> Case(GuiResult(ID, "normal_y", "NormalY", "centroid", Column(normal, 2), "%.3f"), "NormalY")
         [] icase = 6 -> Case(GuiResult(ID, "normal_z", "NormalZ", "centroid", Column(normal, 3), "%.3f"), "NormalZ")
         [] icase = 7 -> Case(GuiResult(ID, "nnodes", "Nnodes", "centroid", nnodes_array, "%.0f"), "Nnodes")]

\* slip: the node-count entry is listed before the normals
FixedFormNnodesBeforeNormals ==
    <<<<"NodeID", 0>>, <<"ElementID", 1>>, <<"Region", 2>>, <<"Nnodes", 3>>,
      <<"Normal", 4>>, <<"NormalX", 5>>, <<"NormalY", 6>>, <<"NormalZ", 7>>>>

\* the eight fixed entries of form: (name, icase, [])
FixedForm ==
    <<<<"NodeID", 0>>, <<"ElementID", 1>>, <<"Region", 2>>, <<"Normal", 3>>,
      <<"NormalX", 4>>, <<"NormalY", 5>>, <<"NormalZ", 6>>, <<"Nnodes", 7>>>>

\* slip: the loop runs over titles instead of titles[1:]
RestKeepsFirst(titles) == titles

\* titles[1:]
Rest(titles) == IF titles = <<>> THEN <<>> ELSE Tail(titles)

\* slip: the loop without the assert of line 240
FirstBadFieldIndexOnly(element_ids, results, titles) ==
    LET bad == {i \in 0..(Len(Rest(titles)) - 1) : i >= results.ncols}
    IN  IF bad = {} THEN -1 ELSE SetMin(bad)

\* first iteration i (0-based) of the loop over titles[1:] that raises, or -1
FirstBadField(element_ids, results, titles) ==
    LET bad == {i \in 0..(Len(Rest(titles)) - 1) :
                   \/ i >= results.ncols
                   \/ Len(element_ids) # Len(results.rows)}
    IN  IF bad = {} THEN -1 ELSE SetMin(bad)

\* _fill_fluent_case(cases, ID, node_ids, element_ids, region, results,
\*                   titles, normal, nnodes_array) -> form, cases
_fill_fluent_case(cases, ID, node_ids, element_ids, region, results, titles, normal, nnodes_array) ==
    LET fixed == FixedCases(ID, node_ids, element_ids, region, normal, nnodes_array)
        rest == Rest(titles)
        bad == FirstBadField(element_ids, results, titles)
        imported(i) == Case(GuiResult(ID, rest[i + 1], rest[i + 1], "centroid",
                                      Column(results.rows, i + 1), "none"),
                            rest[i + 1])
        \* the cases dict once the fixed cases and n imported ones are stored
        stored(n) == [icase \in (DOMAIN cases) \cup (0..(7 + n)) |->
                        IF icase <= 7 /\ icase >= 0 THEN fixed[icase]
                        ELSE IF icase \in 8..(7 + n) THEN imported(icase - 8)
                        ELSE cases[icase]]
        \* an exception: nothing is returned, the dict keeps what was stored
        fail(e, c) == [err |-> e, form |-> <<>>, cases |-> c]
    IN  IF Len(element_ids) # Len(region)
        THEN fail(Raise("AssertionError", 214, {}), cases)
        ELSE IF bad >= 0 /\ bad >= results.ncols
        THEN fail(Raise("IndexError", 239, {}), stored(bad))
        ELSE IF bad >= 0
        THEN fail(Raise("AssertionError", 240, {}), stored(bad))
        ELSE [err |-> NoError,
              form |-> FixedForm \o [i \in 1..Len(rest) |-> <<rest[i], 7 + i>>],
              cases |-> stored(Len(rest))]

\* ---------------------------------------------------------------- state
VARIABLES
    model,         \* what read_fluent returns for the file being loaded
    settings,      \* gui.settings.other_settings: cart3d_fluent_remove / _include
    gui,           \* nnodes, nelements, nid_map, isubcase_name_map, node_ids, element_ids
    ugrid,         \* gui.grid, the renderer's unstructured grid
    result_cases,  \* the cases handed to gui._finish_results_io2
    form,          \* the form handed to gui._finish_results_io2
    filtered,      \* the load's locals element_id, tris, quads, region, results (line 57)
    derived,       \* the load's per-element locals: normal, centroid, area, nnodes_array
    err,           \* the exception the last call raised (type "none": it returned)
    calls,         \* the calls the last call made on the grid, the gui and the helpers
    status,        \* "ready" before the call, then "skipped", "ok" or "failed"
    nloads,        \* history: how many loads into this gui ran to their end
    args,          \* femutils: the arguments of the helper call under test
    ret,           \* femutils: what that call returned or raised
    files,         \* femutils: the files on disk, name -> lines of text
    win,           \* the LegendPropertiesWindow: its fields and widgets
    event          \* the last handler run on the window and what it did

vars == <<model, settings, gui, ugrid, result_cases, form, filtered, derived, err, calls, status, nloads, args, ret, files, win, event>>

\* the variables of the femutils helpers and of the legend window
utilVars == <<args, ret, files>>
legendVars == <<win, event>>

\* no helper was called, no file was written
NoArgs == [fn |-> "none"]
NoRet == [type |-> "none"]
NoFiles == <<>>

\* no legend window was created
NoWindow == [open |-> FALSE]
NoEvent == [op |-> "none"]

\* the loader runs on its own: no helper call, no legend window
LoaderOnly ==
    /\ args = NoArgs
    /\ ret = NoRet
    /\ files = NoFiles
    /\ win = NoWindow
    /\ event = NoEvent

\* no load has filtered anything
NoFiltered ==
    [element_id |-> <<>>, tris |-> <<>>, quads |-> <<>>, region |-> <<>>,
     results |-> [ncols |-> 0, rows |-> <<>>]]

\* no load has derived anything
NoDerived == [normal |-> <<>>, centroid |-> <<>>, area |-> <<>>, nnodes_array |-> <<>>]

\* the gui before any geometry was loaded
PristineGui ==
    [nnodes |-> 0, nelements |-> 0, nid_map |-> <<>>, isubcase_name_map |-> <<>>,
     node_ids |-> <<>>, element_ids |-> <<>>]

Pristine ==
    [gui |-> PristineGui, ugrid |-> EmptyGrid, result_cases |-> <<>>, form |-> <<>>]

\* ---------------------------------------------------------------- load_fluent_geometry
\* results[:, 0] = convert_pressure(results[:, 0], 'Pa', 'psi')
ConvertFirstColumn(results) ==
    LET col == convert_pressure(Column(results.rows, 1), "Pa", "psi")
    IN  [results EXCEPT !.rows = [r \in DOMAIN results.rows |->
                                    [results.rows[r] EXCEPT ![1] = col[r]]]]

\* what a call leaves behind: gui g, grid u, locals d, exception e, calls c;
\* the result cases stay those of the state S it started in
Ended(S, g, u, d, e, c, st) ==
    [gui |-> g, ugrid |-> u, result_cases |-> S.result_cases, form |-> S.form,
     derived |-> d, err |-> e, calls |-> c, status |-> st]

\* slip: gui.node_ids is not replaced (line 115 left out)
FillAndFinishKeepsNodeIds(S, mdl, f, locals, g, u, c, fc) ==
    IF fc.err # NoError
    THEN Ended(S, g, u, locals, fc.err, c, "failed")
    ELSE [gui |-> [g EXCEPT !.element_ids = f.element_id],
          ugrid |-> u, result_cases |-> fc.cases, form |-> fc.form,
          derived |-> locals, err |-> NoError,
          calls |-> Append(c, "_finish_results_io2"), status |-> "ok"]

\* lines 110-118: fc is what _fill_fluent_case returned or raised
FillAndFinish(S, mdl, f, locals, g, u, c, fc) ==
    IF fc.err # NoError
    THEN Ended(S, g, u, locals, fc.err, c, "failed")
    ELSE [gui |-> [g EXCEPT !.node_ids = mdl.node_id, !.element_ids = f.element_id],
          ugrid |-> u, result_cases |-> fc.cases, form |-> fc.form,
          derived |-> locals, err |-> NoError,
          calls |-> Append(c, "_finish_results_io2"), status |-> "ok"]

\* lines 93-110: ce is what _create_elements returned or raised
AfterCreateElements(S, mdl, f, results, locals, g, c, ce) ==
    IF ce.err # NoError
    THEN Ended(S, g, ce.ugrid, locals, ce.err, c \o ce.calls, "failed")
    ELSE FillAndFinish(
             S, mdl, f, locals,
             [g EXCEPT !.nid_map = <<>>,
                       !.isubcase_name_map = (1 :> <<"Fluent", "">>)],
             [ce.ugrid EXCEPT !.modified = TRUE],
             c \o ce.calls \o <<"create_global_axes", "Modified", "VisibilityOff">>,
             _fill_fluent_case(<<>>, 1, mdl.node_id, f.element_id, f.region, results,
                               mdl.titles, locals.normal, locals.nnodes_array))

\* lines 85-93: gui g and grid u hold nnodes, nelements and the points
AfterSetPoints(S, mdl, f, results, locals, g, u, c) ==
    IF Len(mdl.xyz) = 0
    THEN Ended(S, g, u, locals, Raise("ValueError", 85, {}), c, "failed")
    ELSE IF Len(mdl.node_id) # NUnique(mdl.node_id)
    THEN Ended(S, g, u, locals, Raise("AssertionError", 92, {}), c, "failed")
    ELSE AfterCreateElements(S, mdl, f, results, locals, g, c,
                             _create_elements(u, mdl.node_id, f.tris, f.quads))

\* lines 66-82: unit conversion, then nnodes, nelements and the points
AfterDerive(S, mdl, f, locals) ==
    IF f.results.ncols = 0
    THEN Ended(S, S.gui, S.ugrid, locals, Raise("IndexError", 68, {}), <<>>, "failed")
    ELSE IF Len(f.element_id) # Len(f.region)
    THEN Ended(S, S.gui, S.ugrid, locals, Raise("AssertionError", 71, {}), <<>>, "failed")
    ELSE AfterSetPoints(
             S, mdl, f, ConvertFirstColumn(f.results), locals,
             [S.gui EXCEPT !.nnodes = Len(mdl.xyz), !.nelements = Len(f.element_id)],
             [S.ugrid EXCEPT !.allocated = Len(f.element_id),
                             !.points = convert_length(mdl.xyz, "m", "in")],
             <<"Allocate", "SetPoints">>)

\* slip: the per-element arrays stacked triangles first
DeriveTrisFirst(out) ==
    [normal |-> Stack(out.tri_normal, out.quad_normal),
     centroid |-> Stack(out.tri_centroid, out.quad_centroid),
     area |-> Stack(out.tri_area, out.quad_area),
     nnodes_array |-> NnodesArray(out.quad_area, out.tri_area)]

\* lines 60-64: the per-element arrays, quads first
Derive(out) ==
    [normal |-> Stack(out.quad_normal, out.tri_normal),
     centroid |-> Stack(out.quad_centroid, out.tri_centroid),
     area |-> Stack(out.quad_area, out.tri_area),
     nnodes_array |-> NnodesArray(out.quad_area, out.tri_area)]

\* slip: a face of zero area stops the load
AfterFilterZeroAreaIsFatal(S, mdl, f) ==
    LET locals == Derive(get_area_centroid_normal(mdl, f.tris, f.quads))
    IN  IF \E k \in DOMAIN locals.area : locals.area[k].rad = 0
        THEN Ended(S, S.gui, S.ugrid, locals, Raise("ValueError", 59, {}), <<>>, "failed")
        ELSE AfterDerive(S, mdl, f, locals)

\* lines 59-64: f is what get_filtered_data returned
AfterFilter(S, mdl, f) ==
    AfterDerive(S, mdl, f, Derive(get_area_centroid_normal(mdl, f.tris, f.quads)))

\* slip: regions_to_remove left at the empty list (the commented-out
\* default of line 51)
FilteredRemoveNothing(mdl, stg) == get_filtered_data(mdl, {}, stg.include)

\* slip: the two region lists handed over in the wrong order
FilteredListsSwapped(mdl, stg) == get_filtered_data(mdl, stg.include, stg.remove)

\* lines 54-58: the two region lists are read from the settings and handed
\* to model.get_filtered_data, regions_to_remove first
Filtered(mdl, stg) == get_filtered_data(mdl, stg.remove, stg.include)

\* FluentIO.load_fluent_geometry: the state it leaves, from the state S it
\* starts in.  skip_reading is what gui._remove_old_geometry returned.
load_fluent_geometry(S, mdl, stg, skip_reading) ==
    IF skip_reading
    THEN Ended(S, S.gui, S.ugrid, NoDerived, NoError, <<>>, "skipped")
    ELSE AfterFilter(S, mdl, Filtered(mdl, stg))

\* ---------------------------------------------------------------- inputs
\* the row of a face with element id eid on the nodes start, start+1, ...:
\* <<eid, region, node ids...>>
FaceRow(eid, region, start, dnode) ==
    <<eid, region>> \o [j \in 1..dnode |-> start + j - 1]

\* coordinates of the node at position i of the node array: the first three
\* nodes lie on one line, the later ones off it
XyzOf(i) == IF i <= 3 THEN <<i, i, 0>> ELSE <<i, i * i, i % 2>>

TitleNames == <<"t0", "t1", "t2", "t3", "t4">>

\* a value as it stands in the file: in the unit of the file, not converted
AsRead(x) == [val |-> x, from |-> "file", to |-> "file"]

\* the value of result column c for element eid
ResultOf(eid, c) == AsRead(10 * eid + c)

\* what read_fluent returns: node ids, coordinates, face tables, titles and
\* one row of results per element, quads first
MakeModel(node_id, quads, tris, ncols) ==
    [node_id |-> node_id,
     xyz |-> [i \in DOMAIN node_id |-> XyzOf(i)],
     quads |-> quads,
     tris |-> tris,
     titles |-> SubSeq(TitleNames, 1, ncols + 1),
     results |-> [ncols |-> ncols,
                  rows |-> [r \in 1..(Len(quads) + Len(tris)) |->
                              [c \in 1..ncols |->
                                 ResultOf((quads \o tris)[r][1], c)]]]]

\* node-id arrays of 1..MaxNodes ids out of 1..MaxNid, in any order
NodeIdArrays == UNION {[1..n -> 1..MaxNid] : n \in 1..MaxNodes}

UniqueNodeIdArrays == {a \in NodeIdArrays : NUnique(a) = Len(a)}

\* node-id arrays of mesh files: every id in ascending or in descending
\* order, the last id left out, or the first id repeated at the end
FileNodeIdArrays ==
    LET asc(n) == [i \in 1..n |-> i]
    IN  {asc(MaxNid), asc(MaxNid - 1), [i \in 1..MaxNid |-> MaxNid + 1 - i],
         Append(asc(MaxNid), 1)}

\* first node of a face of dnode nodes at position k of a mesh file
StartOf(k, dnode) == IF k + dnode - 1 <= MaxNid THEN k ELSE MaxNid - dnode + 1

\* a mesh file lists its faces in element-id order; each is a quad or a
\* triangle with a region tag
FaceLists == UNION {[1..n -> {"quad", "tri"} \X (1..MaxRegion)] : n \in 0..MaxFaces}

RECURSIVE FaceTable(_, _, _)
\* the rows of one shape, in file order
FaceTable(fl, shape, k) ==
    IF k > Len(fl) THEN <<>>
    ELSE (IF fl[k][1] = shape
          THEN LET dnode == IF shape = "quad" THEN 4 ELSE 3
               IN  <<FaceRow(k, fl[k][2], StartOf(k, dnode), dnode)>>
          ELSE <<>>)
         \o FaceTable(fl, shape, k + 1)

Meshes ==
    {MakeModel(a, FaceTable(fl, "quad", 1), FaceTable(fl, "tri", 1), MaxFields) :
        a \in FileNodeIdArrays, fl \in FaceLists}

\* a region list of the settings: empty, or one region
RegionLists == {{}} \cup {{r} : r \in 1..MaxRegion}

NoFilter == [remove |-> {}, include |-> {}]

\* a mesh loaded earlier into the same gui; it has one imported field more
\* than the mesh files above
OldMesh ==
    MakeModel(<<4, 3, 2, 1>>, <<FaceRow(7, 1, 1, 4)>>, <<FaceRow(8, 1, 1, 3)>>, MaxFields + 1)

Loaded(r) == [gui |-> r.gui, ugrid |-> r.ugrid,
              result_cases |-> r.result_cases, form |-> r.form]

\* the states a load can start from: nothing loaded yet, or OldMesh loaded
PriorStates == {Pristine, Loaded(load_fluent_geometry(Pristine, OldMesh, NoFilter, FALSE))}

\* ---------------------------------------------------------------- Spec: one load
Init ==
    /\ model \in Meshes
    /\ settings \in [remove : RegionLists, include : RegionLists]
    /\ \E S \in PriorStates :
          /\ gui = S.gui
          /\ ugrid = S.ugrid
          /\ result_cases = S.result_cases
          /\ form = S.form
          /\ nloads = IF S = Pristine THEN 0 ELSE 1
    /\ filtered = NoFiltered
    /\ derived = NoDerived
    /\ err = NoError
    /\ calls = <<>>
    /\ status = "ready"
    /\ LoaderOnly

LoadFluentGeometry ==
    /\ status = "ready"
    /\ \E skip_reading \in BOOLEAN :
          LET r == load_fluent_geometry(
                       [gui |-> gui, ugrid |-> ugrid,
                        result_cases |-> result_cases, form |-> form],
                       model, settings, skip_reading)
          IN  /\ gui' = r.gui
              /\ ugrid' = r.ugrid
              /\ result_cases' = r.result_cases
              /\ form' = r.form
              /\ filtered' = IF skip_reading THEN filtered ELSE Filtered(model, settings)
              /\ derived' = r.derived
              /\ err' = r.err
              /\ calls' = r.calls
              /\ status' = r.status
              /\ nloads' = IF r.status = "ok" THEN nloads + 1 ELSE nloads
    /\ UNCHANGED <<model, settings>>
    /\ UNCHANGED <<utilVars, legendVars>>

Next == LoadFluentGeometry

Spec == Init /\ [][Next]_vars

\* ---------------------------------------------------------------- SpecPack: _create_elements
\* first node of face x of a table of consecutive faces, nstart first nodes
\* in turn
StartAt(x, nstart) == ((x - 1) % nstart) + 1

\* face tables handed to _create_elements: n faces of dnode nodes, the
\* first one on the nodes s, s+1, ...; element ids from eid0 + 1 on
Table(n, s, nstart, dnode, eid0) ==
    [k \in 1..n |-> FaceRow(eid0 + k, 1, StartAt(s + k - 1, nstart), dnode)]

\* the table t with the last node of its last face replaced by the id
\* MaxNid + 1, which no node set holds
Dangling(t) ==
    IF Len(t) = 0 THEN t
    ELSE [t EXCEPT ![Len(t)] = [@ EXCEPT ![Len(@)] = MaxNid + 1]]

\* quads and triangles on the nodes 1..MaxNid, the last triangle possibly
\* on a node id that is not in any node set
PackInputs ==
    {MakeModel(a, Table(nq, sq, MaxNid - 3, 4, MaxTris),
               IF dangling THEN Dangling(Table(nt, st, MaxNid - 2, 3, 0))
                           ELSE Table(nt, st, MaxNid - 2, 3, 0), 1) :
        a \in UniqueNodeIdArrays,
        nq \in 0..MaxQuads, sq \in 1..(MaxNid - 3),
        nt \in 0..MaxTris, st \in 1..(MaxNid - 2),
        dangling \in BOOLEAN}

InitPack ==
    /\ model \in PackInputs
    /\ settings = NoFilter
    /\ gui = PristineGui
    /\ ugrid = EmptyGrid
    /\ result_cases = <<>>
    /\ form = <<>>
    /\ filtered = NoFiltered
    /\ derived = NoDerived
    /\ err = NoError
    /\ calls = <<>>
    /\ status = "ready"
    /\ nloads = 0
    /\ LoaderOnly

CreateElements ==
    /\ status = "ready"
    /\ LET r == _create_elements(ugrid, model.node_id, model.tris, model.quads)
       IN  /\ ugrid' = r.ugrid
           /\ err' = r.err
           /\ calls' = r.calls
           /\ status' = IF r.err = NoError THEN "ok" ELSE "failed"
    /\ UNCHANGED <<model, settings, gui, result_cases, form, filtered, derived, nloads>>
    /\ UNCHANGED <<utilVars, legendVars>>

NextPack == CreateElements

SpecPack == InitPack /\ [][NextPack]_vars

\* ---------------------------------------------------------------- SpecFill: _fill_fluent_case
\* the arguments of a direct call of _fill_fluent_case; the lengths of the
\* arrays are independent of each other
FillNodeId(nn) == [i \in 1..nn |-> i]

FillModel(nn, ntitles) ==
    [MakeModel(FillNodeId(nn), <<>>, <<>>, 0) EXCEPT !.titles = SubSeq(TitleNames, 1, ntitles)]

FillFiltered(ne, nr, nrows, ncols) ==
    [element_id |-> [k \in 1..ne |-> k],
     tris |-> <<>>,
     quads |-> <<>>,
     region |-> [k \in 1..nr |-> 1 + (k % MaxRegion)],
     results |-> [ncols |-> ncols,
                  rows |-> [r \in 1..nrows |-> [c \in 1..ncols |-> ResultOf(r, c)]]]]

FillDerived(nnormal, nnn) ==
    [normal |-> [k \in 1..nnormal |-> [j \in 1..3 |-> [num |-> 10 * j + k, rad |-> 1]]],
     centroid |-> <<>>,
     area |-> <<>>,
     nnodes_array |-> [k \in 1..nnn |-> 3]]

InitFill ==
    /\ model \in {FillModel(nn, nt) : nn \in {1, MaxNodes}, nt \in 0..(MaxFields + 1)}
    /\ filtered \in {FillFiltered(ne, nr, nrows, ncols) :
                        ne \in 0..MaxFaces, nr \in 0..MaxFaces,
                        nrows \in 0..MaxFaces, ncols \in 0..MaxFields}
    /\ derived \in {FillDerived(nnormal, nnn) :
                       nnormal \in 0..MaxFaces, nnn \in 0..MaxFaces}
    /\ settings = NoFilter
    /\ gui = PristineGui
    /\ ugrid = EmptyGrid
    /\ result_cases = <<>>
    /\ form = <<>>
    /\ err = NoError
    /\ calls = <<>>
    /\ status = "ready"
    /\ nloads = 0
    /\ LoaderOnly

\* form, cases = _fill_fluent_case(cases, ID, ...), with cases = {} and
\* ID = 1 as at lines 105-113
FillFluentCase ==
    /\ status = "ready"
    /\ LET r == _fill_fluent_case(result_cases, 1, model.node_id, filtered.element_id, filtered.region, filtered.results, model.titles, derived.normal, derived.nnodes_array)
       IN  /\ result_cases' = r.cases
           /\ form' = r.form
           /\ err' = r.err
           /\ status' = IF r.err = NoError THEN "ok" ELSE "failed"
    /\ UNCHANGED <<model, settings, gui, ugrid, filtered, derived, calls, nloads>>
    /\ UNCHANGED <<utilVars, legendVars>>

NextFill == FillFluentCase

SpecFill == InitFill /\ [][NextFill]_vars

\* ---------------------------------------------------------------- SpecFilter: the region filter
\* the face table with the element ids of a file of n faces counted down
ReverseIds(table, n) == [c \in DOMAIN table |-> [table[c] EXCEPT ![1] = n + 1 - @]]

\* mesh files whose element ids ascend or descend along the face tables
FilterMeshes ==
    {MakeModel([i \in 1..MaxNid |-> i],
               IF rev THEN ReverseIds(FaceTable(fl, "quad", 1), Len(fl)) ELSE FaceTable(fl, "quad", 1),
               IF rev THEN ReverseIds(FaceTable(fl, "tri", 1), Len(fl)) ELSE FaceTable(fl, "tri", 1),
               1) :
        fl \in FaceLists, rev \in BOOLEAN}

InitFilter ==
    /\ model \in FilterMeshes
    /\ settings \in [remove : SUBSET (1..MaxRegion), include : SUBSET (1..MaxRegion)]
    /\ filtered = NoFiltered
    /\ derived = NoDerived
    /\ gui = PristineGui
    /\ ugrid = EmptyGrid
    /\ result_cases = <<>>
    /\ form = <<>>
    /\ err = NoError
    /\ calls = <<>>
    /\ status = "ready"
    /\ nloads = 0
    /\ LoaderOnly

\* lines 54-58 on their own
ApplyFilter ==
    /\ status = "ready"
    /\ filtered' = Filtered(model, settings)
    /\ status' = "ok"
    /\ UNCHANGED <<model, settings, gui, ugrid, result_cases, form, derived, err, calls, nloads>>
    /\ UNCHANGED <<utilVars, legendVars>>

NextFilter == ApplyFilter

SpecFilter == InitFilter /\ [][NextFilter]_vars

\* ---------------------------------------------------------------- SpecGeom: geometry derivation
\* points with integer coordinates in 0..MaxCoord
Coords == (0..MaxCoord) \X (0..MaxCoord) \X (0..MaxCoord)

\* one triangle on the nodes 1, 2, 3 and the same triangle wound the other
\* way round, the three nodes anywhere on the coordinate grid
GeomMeshes ==
    {[MakeModel(<<1, 2, 3>>, <<>>, <<<<1, 1, 1, 2, 3>>, <<2, 1, 3, 2, 1>>>>, 1)
         EXCEPT !.xyz = xyz] : xyz \in [1..3 -> Coords]}

InitGeom ==
    /\ model \in GeomMeshes
    /\ settings = NoFilter
    /\ filtered = NoFiltered
    /\ derived = NoDerived
    /\ gui = PristineGui
    /\ ugrid = EmptyGrid
    /\ result_cases = <<>>
    /\ form = <<>>
    /\ err = NoError
    /\ calls = <<>>
    /\ status = "ready"
    /\ nloads = 0
    /\ LoaderOnly

\* lines 57-64 without a region filter
DeriveGeometry ==
    /\ status = "ready"
    /\ filtered' = Filtered(model, settings)
    /\ derived' = Derive(get_area_centroid_normal(model, filtered'.tris, filtered'.quads))
    /\ status' = "ok"
    /\ UNCHANGED <<model, settings, gui, ugrid, result_cases, form, err, calls, nloads>>
    /\ UNCHANGED <<utilVars, legendVars>>

NextGeom == DeriveGeometry

SpecGeom == InitGeom /\ [][NextGeom]_vars

\* ---------------------------------------------------------------- SpecQuad: geometry of quads
\* one quadrilateral on the nodes 1, 2, 3, 4, the same quadrilateral wound
\* the other way round and the triangle 1, 2, 3; node 1 at the origin, the
\* other three nodes anywhere on the coordinate grid
QuadMeshes ==
    {[MakeModel(<<1, 2, 3, 4>>, <<<<1, 1, 1, 2, 3, 4>>, <<2, 1, 4, 3, 2, 1>>>>,
                <<<<3, 1, 1, 2, 3>>>>, 1)
         EXCEPT !.xyz = [i \in 1..4 |-> IF i = 1 THEN <<0, 0, 0>> ELSE p[i - 1]]] :
        p \in [1..3 -> Coords]}

InitQuad ==
    /\ model \in QuadMeshes
    /\ settings = NoFilter
    /\ filtered = NoFiltered
    /\ derived = NoDerived
    /\ gui = PristineGui
    /\ ugrid = EmptyGrid
    /\ result_cases = <<>>
    /\ form = <<>>
    /\ err = NoError
    /\ calls = <<>>
    /\ status = "ready"
    /\ nloads = 0
    /\ LoaderOnly

SpecQuad == InitQuad /\ [][NextGeom]_vars

\* ================================================================ femutils
\* the loader is not running
loadVars == <<model, settings, gui, ugrid, result_cases, form, filtered, derived, err, calls, status, nloads>>

LoaderIdle ==
    /\ model = MakeModel(<<>>, <<>>, <<>>, 0)
    /\ settings = NoFilter
    /\ gui = PristineGui
    /\ ugrid = EmptyGrid
    /\ result_cases = <<>>
    /\ form = <<>>
    /\ filtered = NoFiltered
    /\ derived = NoDerived
    /\ err = NoError
    /\ calls = <<>>
    /\ status = "ready"
    /\ nloads = 0

\* ---------------------------------------------------------------- perpendicular_vector
\* A returned vector is held exactly as vec/div.
\* femutils.utils.perpendicular_vector(v): the zero vector is refused; a
\* vector with a zero component gets the unit vector of the first such
\* axis; any other vector gets (1, 1, -(x + y)/z)
perpendicular_vector(v) ==
    IF v = <<0, 0, 0>> THEN [type |-> "ValueError"]
    ELSE [type |-> "array",
          value |-> IF v[1] = 0 THEN [vec |-> <<1, 0, 0>>, div |-> 1]
                    ELSE IF v[2] = 0 THEN [vec |-> <<0, 1, 0>>, div |-> 1]
                    ELSE IF v[3] = 0 THEN [vec |-> <<0, 0, 1>>, div |-> 1]
                    ELSE [vec |-> <<v[3], v[3], 0 - (v[1] + v[2])>>, div |-> v[3]]]

\* one row of perpendicular_vector2d: the axes are tried z first, then y,
\* then x
PerpendicularRow(v) ==
    IF v[3] = 0 THEN [vec |-> <<0, 0, 1>>, div |-> 1]
    ELSE IF v[2] = 0 THEN [vec |-> <<0, 1, 0>>, div |-> 1]
    ELSE IF v[1] = 0 THEN [vec |-> <<1, 0, 0>>, div |-> 1]
    ELSE [vec |-> <<v[3], v[3], 0 - (v[1] + v[2])>>, div |-> v[3]]

\* femutils.utils.perpendicular_vector2d(v_array): row by row
perpendicular_vector2d(v_array) ==
    [type |-> "array", value |-> [r \in DOMAIN v_array |-> PerpendicularRow(v_array[r])]]

\* test_perpendicular_vector, lines 65-72: the vectors it tries
TestVectors == <<<<1, 0, 0>>, <<1, 1, 0>>, <<1, 1, 1>>>>

\* slip: the answers of perpendicular_vector2d expected of perpendicular_vector
TestExpectedOf2d == <<<<0, 0, 1>>, <<0, 0, 1>>, <<1, 1, -2>>>>

\* and the vectors it expects back
TestExpected == <<<<0, 1, 0>>, <<0, 0, 1>>, <<1, 1, -2>>>>

\* lines 78-84: the array it hands to perpendicular_vector2d
TestRows == <<<<1, 0, 0>>, <<0, 1, 0>>, <<0, 0, 1>>, <<1, 1, 0>>, <<1, 1, 1>>>>

\* vectors with integer components
CompVectors == (-MaxComp..MaxComp) \X (-MaxComp..MaxComp) \X (-MaxComp..MaxComp)

\* the vector v with its components moved round by i places
Rotated(v, i) == [k \in 1..3 |-> v[((k + i - 2) % 3) + 1]]

\* arrays of non-zero rows: the array of the test, and a vector followed
\* by its rotations
RowArrays ==
    {TestRows} \cup
    {[i \in 1..n |-> Rotated(v, i)] : v \in CompVectors \ {<<0, 0, 0>>}, n \in 1..MaxRows}

InitPerp ==
    /\ args \in {[fn |-> "perpendicular_vector", v |-> v] : v \in CompVectors}
                \cup {[fn |-> "perpendicular_vector2d", v |-> a] : a \in RowArrays}
    /\ ret = NoRet
    /\ files = NoFiles
    /\ win = NoWindow
    /\ event = NoEvent
    /\ LoaderIdle

PerpendicularVector ==
    /\ args.fn = "perpendicular_vector"
    /\ ret = NoRet
    /\ ret' = perpendicular_vector(args.v)
    /\ UNCHANGED <<args, files, legendVars, loadVars>>

PerpendicularVector2d ==
    /\ args.fn = "perpendicular_vector2d"
    /\ ret = NoRet
    /\ ret' = perpendicular_vector2d(args.v)
    /\ UNCHANGED <<args, files, legendVars, loadVars>>

NextPerp == PerpendicularVector \/ PerpendicularVector2d

SpecPerp == InitPerp /\ [][NextPerp]_vars

\* ---------------------------------------------------------------- savetxt_nice / loadtxt_nice
\* A text is a sequence of characters, a file a sequence of lines.
DigitChars == <<"0", "1", "2", "3", "4", "5", "6", "7", "8", "9">>

IsDigit(ch) == \E d \in DOMAIN DigitChars : DigitChars[d] = ch

DigitValue(ch) == (CHOOSE d \in DOMAIN DigitChars : DigitChars[d] = ch) - 1

RECURSIVE DigitsOf(_)
\* the decimal digits of a natural number, most significant first
DigitsOf(n) == IF n < 10 THEN <<n>> ELSE DigitsOf(n \div 10) \o <<n % 10>>

RECURSIVE NumberOf(_)
\* the natural number written by a sequence of digits
NumberOf(ds) ==
    IF ds = <<>> THEN 0 ELSE 10 * NumberOf(SubSeq(ds, 1, Len(ds) - 1)) + ds[Len(ds)]

\* '%.<ndigits>e' % x for a whole number x: sign, first digit, the point
\* and ndigits more digits, 'e', the sign and at least two digits of the
\* exponent (the values written here have fewer digits than the format
\* keeps, so nothing is rounded)
FormatE(x, ndigits) ==
    LET mag == IF x < 0 THEN 0 - x ELSE x
        ds == DigitsOf(mag)
        es == DigitsOf(Len(ds) - 1)
    IN  (IF x < 0 THEN <<"-">> ELSE <<>>)
        \o <<DigitChars[ds[1] + 1]>>
        \o (IF ndigits > 0 THEN <<".">> ELSE <<>>)
        \o [i \in 1..ndigits |-> DigitChars[(IF i + 1 <= Len(ds) THEN ds[i + 1] ELSE 0) + 1]]
        \o <<"e", "+">>
        \o (IF Len(es) < 2 THEN <<"0">> ELSE <<>>)
        \o [i \in DOMAIN es |-> DigitChars[es[i] + 1]]

RECURSIVE Join(_, _)
\* delimiter.join(tokens)
Join(tokens, delimiter) ==
    IF Len(tokens) = 0 THEN <<>>
    ELSE IF Len(tokens) = 1 THEN tokens[1]
    ELSE tokens[1] \o <<delimiter>> \o Join(Tail(tokens), delimiter)

\* savetxt_nice(fname, A, fmt, delimiter): the lines written, one per row
savetxt_nice(A, ndigits, delimiter) ==
    [r \in DOMAIN A |->
        Join([c \in DOMAIN A[r] |-> FormatE(A[r][c], ndigits)], delimiter)]

RECURSIVE Split(_, _)
\* line.split(delimiter)
Split(line, delimiter) ==
    IF \A i \in DOMAIN line : line[i] # delimiter THEN <<line>>
    ELSE LET i == CHOOSE k \in DOMAIN line :
                      /\ line[k] = delimiter
                      /\ \A j \in 1..(k - 1) : line[j] # delimiter
         IN  <<SubSeq(line, 1, i - 1)>> \o Split(SubSeq(line, i + 1, Len(line)), delimiter)

\* position of the first ch in the text, 0 if there is none
Find(text, ch) ==
    IF \A i \in DOMAIN text : text[i] # ch THEN 0
    ELSE CHOOSE k \in DOMAIN text :
             text[k] = ch /\ \A j \in 1..(k - 1) : text[j] # ch

RECURSIVE StripZeros(_)
\* digits without the trailing zeros
StripZeros(ds) ==
    IF ds = <<>> \/ ds[Len(ds)] # 0 THEN ds ELSE StripZeros(SubSeq(ds, 1, Len(ds) - 1))

\* float(token): [sign] digits [. digits] [e [sign] digits], anything else
\* is refused.  The value is held exactly: sign, whole part and the digits
\* after the point.
ParseFloat(token) ==
    LET signed == token # <<>> /\ token[1] \in {"-", "+"}
        body == IF signed THEN Tail(token) ELSE token
        pe == Find(body, "e")
        mant == IF pe = 0 THEN body ELSE SubSeq(body, 1, pe - 1)
        expo == IF pe = 0 THEN <<>> ELSE SubSeq(body, pe + 1, Len(body))
        esigned == expo # <<>> /\ expo[1] \in {"-", "+"}
        edigits == IF esigned THEN Tail(expo) ELSE expo
        pd == Find(mant, ".")
        whole == IF pd = 0 THEN mant ELSE SubSeq(mant, 1, pd - 1)
        after == IF pd = 0 THEN <<>> ELSE SubSeq(mant, pd + 1, Len(mant))
        wellformed ==
            /\ whole \o after # <<>>
            /\ \A i \in DOMAIN whole : IsDigit(whole[i])
            /\ \A i \in DOMAIN after : IsDigit(after[i])
            /\ pe # 0 => edigits # <<>>
            /\ \A i \in DOMAIN edigits : IsDigit(edigits[i])
    IN  IF ~wellformed THEN [ok |-> FALSE]
        ELSE LET ev == NumberOf([i \in DOMAIN edigits |-> DigitValue(edigits[i])])
                 e == IF esigned /\ expo[1] = "-" THEN 0 - ev ELSE ev
                 digits == [i \in DOMAIN whole |-> DigitValue(whole[i])]
                           \o [i \in DOMAIN after |-> DigitValue(after[i])]
                 point == Len(whole) + e
                 padded == IF point > Len(digits)
                           THEN digits \o [i \in 1..(point - Len(digits)) |-> 0]
                           ELSE IF point < 0
                           THEN [i \in 1..(0 - point) |-> 0] \o digits
                           ELSE digits
                 cut == IF point < 0 THEN 0 ELSE point
             IN  [ok |-> TRUE,
                  neg |-> signed /\ token[1] = "-",
                  int |-> NumberOf(SubSeq(padded, 1, cut)),
                  frac |-> StripZeros(SubSeq(padded, cut + 1, Len(padded)))]

\* loadtxt_nice(fname, delimiter, dtype=np.float64): the lines are split at
\* the delimiter and every token is read as a float
loadtxt_nice(disk, fname, delimiter) ==
    IF fname \notin DOMAIN disk THEN [type |-> "FileNotFoundError"]
    ELSE LET lines == disk[fname]
             data == [r \in DOMAIN lines |->
                        LET sline == Split(lines[r], delimiter)
                        IN  [c \in DOMAIN sline |-> ParseFloat(sline[c])]]
         IN  IF \E r \in DOMAIN data : \E c \in DOMAIN data[r] : ~data[r][c].ok
             THEN [type |-> "ValueError"]
             ELSE IF \E r \in DOMAIN data : Len(data[r]) # Len(data[1])
             THEN [type |-> "ValueError"]
             ELSE [type |-> "array",
                   value |-> [r \in DOMAIN data |->
                                [c \in DOMAIN data[r] |->
                                   [neg |-> data[r][c].neg, int |-> data[r][c].int,
                                    frac |-> data[r][c].frac]]]]

\* fmt='%.18e' (line 154)
FmtDigits == 18

\* slip: the numbers written with fmt='%.0e'
SavedTextNoDigits(A, delimiter) == savetxt_nice(A, 0, delimiter)

\* lines 154-155: savetxt_nice(csv_filename, A, fmt='%.18e', delimiter=...)
SavedText(A, delimiter) == savetxt_nice(A, FmtDigits, delimiter)

\* the delimiters of the test: ',' and ' '
Delimiters == {",", " "}

\* real arrays of whole numbers: a on the diagonal, b off it
TxtArrays ==
    {[i \in 1..nr |-> [j \in 1..nc |-> IF i = j THEN a ELSE b]] :
        nr \in 1..MaxDim, nc \in 1..MaxDim, a \in -MaxVal..MaxVal, b \in {0, MaxVal}}

InitTxt ==
    /\ args \in [fn : {"savetxt_nice"}, A : TxtArrays, fname : {"savetxt_real.csv"},
                  delimiter : Delimiters, load_delimiter : Delimiters,
                  load_name : {"savetxt_real.csv", "missing.txt"}]
    /\ ret = NoRet
    /\ files = NoFiles
    /\ win = NoWindow
    /\ event = NoEvent
    /\ LoaderIdle

SaveTxt ==
    /\ ret = NoRet
    /\ args.fname \notin DOMAIN files
    /\ files' = (args.fname :> SavedText(args.A, args.delimiter)) @@ files
    /\ UNCHANGED <<args, ret, legendVars, loadVars>>

LoadTxt ==
    /\ ret = NoRet
    /\ ret' = loadtxt_nice(files, args.load_name, args.load_delimiter)
    /\ UNCHANGED <<args, files, legendVars, loadVars>>

NextTxt == SaveTxt \/ LoadTxt

SpecTxt == InitTxt /\ [][NextTxt]_vars

\* ---------------------------------------------------------------- legend window
\* LegendPropertiesWindow keeps the three active cases and their defaults,
\* the external_call flag, the state of the 'Create Animation' button, the
\* edit fields whose text does not pass its check, out_data and whether the
\* window is open.  The colours, fonts and visibility of the widgets are
\* not kept.  event is the last call: its name, what on_validate returned
\* (or the exception it raised), whether on_apply called the parent's
\* apply_legend, and what update_legend was given and decided.

\* icase_* is None
NoCase == 0

Cases == 1..MaxCase

CaseOrNone == {NoCase} \cup Cases

\* lines 841-847: the edits checked when a fringe case is active
FringeEdits == {"min", "max", "filter_value", "format", "nlabels", "ncolors", "labelsize"}

\* lines 856-857
DispEdits == {"scale", "phase"}

\* line 864
VectorEdits == {"arrow_scale"}

AllEdits == FringeEdits \cup DispEdits \cup VectorEdits

\* the edits on_validate checks for the cases that are active
CheckedEdits(w) ==
    (IF w.icase_fringe # NoCase THEN FringeEdits ELSE {})
    \cup (IF w.icase_disp # NoCase THEN DispEdits ELSE {})
    \cup (IF w.icase_vector # NoCase THEN VectorEdits ELSE {})

\* lines 867-887: the keys on_validate writes, in the order it writes them
OutKeys == <<"title", "min_value", "max_value", "filter_value", "format", "scale", "phase", "arrow_scale", "nlabels", "ncolors", "labelsize", "colormap", "is_low_to_high", "is_horizontal", "is_shown", "clicked_ok", "close">>

OutKeySet == {OutKeys[i] : i \in DOMAIN OutKeys}

\* PyDialog.__init__: self.out_data = data; the data of the caller holds
\* the values of the legend and neither clicked_ok nor close
DataOut == [k \in OutKeySet |-> IF k \in {"clicked_ok", "close"} THEN "unset" ELSE "data"]

\* check_float, check_format, check_positive_int_or_blank: the value of the
\* text and True, or None and False when the text does not pass
CheckEdit(w, edit) ==
    IF edit \in w.bad THEN [value |-> "None", flag |-> FALSE]
    ELSE [value |-> "value", flag |-> TRUE]

\* lines 867-887: what a complete pass writes to each key
ValidatedValue(w, k) ==
    IF k = "title" THEN (IF w.icase_fringe # NoCase THEN "text" ELSE "blank")
    ELSE IF k \in {"min_value", "max_value", "filter_value", "format", "nlabels", "ncolors", "labelsize", "colormap"}
    THEN (IF w.icase_fringe # NoCase THEN "value" ELSE "None")
    ELSE IF k \in {"scale", "phase"} THEN (IF w.icase_disp # NoCase THEN "value" ELSE "None")
    ELSE IF k = "arrow_scale" THEN (IF w.icase_vector # NoCase THEN "value" ELSE "None")
    ELSE IF k \in {"is_low_to_high", "is_horizontal", "is_shown"} THEN "checked"
    ELSE "True"

\* out_data after the first n assignments of lines 867-887
WrittenUpTo(w, n) ==
    [k \in OutKeySet |->
        IF \E i \in 1..n : OutKeys[i] = k THEN ValidatedValue(w, k) ELSE w.out_data[k]]

\* line 870 reads filter_value, which only line 843 assigns: the three
\* assignments before it have been made when it raises
BeforeFilterValue == CHOOSE i \in 1..(Len(OutKeys) - 1) : OutKeys[i + 1] = "filter_value"

\* on_validate (lines 829-894): what it returns or raises, and out_data
\* as it leaves it
on_validate(w) ==
    LET fringe == w.icase_fringe # NoCase
        disp == w.icase_disp # NoCase
        vector == w.icase_vector # NoCase
        flag_fringe == fringe => \A e \in FringeEdits : CheckEdit(w, e).flag
        flag_disp == disp => \A e \in DispEdits : CheckEdit(w, e).flag
        flag_vector == vector => CheckEdit(w, "arrow_scale").flag
    IN  IF disp /\ CheckEdit(w, "scale").value = "None"
        THEN [ret |-> "AssertionError", out_data |-> w.out_data]
        ELSE IF flag_fringe /\ flag_disp /\ flag_vector
        THEN IF fringe
             THEN [ret |-> "True", out_data |-> WrittenUpTo(w, Len(OutKeys))]
             ELSE [ret |-> "UnboundLocalError", out_data |-> WrittenUpTo(w, BeforeFilterValue)]
        ELSE [ret |-> "False", out_data |-> w.out_data]

\* on_apply (lines 896-903): the window after it, what on_validate gave,
\* the flag line 899 found and whether apply_legend was called; an
\* exception of on_validate leaves before line 899
on_apply(w) ==
    LET v == on_validate(w)
    IN  IF v.ret \in {"True", "False"}
        THEN [win |-> [w EXCEPT !.out_data = v.out_data, !.external_call = TRUE],
              passed |-> v.ret,
              external |-> w.external_call,
              applied |-> v.ret = "True" /\ w.external_call]
        ELSE [win |-> [w EXCEPT !.out_data = v.out_data],
              passed |-> v.ret,
              external |-> FALSE,
              applied |-> FALSE]

\* the record of a call
Called(op, passed, external, applied, update, arg, before) ==
    [op |-> op, passed |-> passed, external |-> external, applied |-> applied,
     update |-> update, arg |-> arg, before |-> before]

\* __init__ (lines 60-131) and create_widgets (lines 544-553); the texts
\* come from the data and pass their checks
Constructed(icase_fringe, icase_disp, icase_vector) ==
    [open |-> TRUE,
     external_call |-> TRUE,
     icase_fringe |-> icase_fringe,
     icase_disp |-> icase_disp,
     icase_vector |-> icase_vector,
     default_icase_fringe |-> icase_fringe,
     default_icase_disp |-> icase_disp,
     default_icase_vector |-> icase_vector,
     animate_enabled |-> icase_disp # NoCase,
     bad |-> {},
     out_data |-> DataOut]

InitLegend ==
    /\ \E f \in CaseOrNone, d \in CaseOrNone, v \in CaseOrNone : win = Constructed(f, d, v)
    /\ event = Called("__init__", "none", FALSE, FALSE, FALSE, FALSE, DataOut)
    /\ args = NoArgs
    /\ ret = NoRet
    /\ files = NoFiles
    /\ LoaderIdle

\* update_legend (lines 163-343), given floats for the values it shows
UpdateLegend ==
    /\ win.open
    /\ \E icase_fringe \in CaseOrNone, icase_disp \in CaseOrNone, icase_vector \in CaseOrNone, external_call \in BOOLEAN :
          LET update_fringe == icase_fringe # win.default_icase_fringe
              update_disp == icase_disp # win.default_icase_disp
              update_vector == icase_vector # win.default_icase_vector
              update == update_fringe \/ update_disp \/ update_vector
              shown == [win EXCEPT
                  !.external_call = external_call,
                  !.icase_fringe = IF update_fringe THEN icase_fringe ELSE @,
                  !.default_icase_fringe = IF update_fringe THEN icase_fringe ELSE @,
                  !.icase_disp = IF update_disp THEN icase_disp ELSE @,
                  !.default_icase_disp = IF update_disp THEN icase_disp ELSE @,
                  !.icase_vector = IF update_vector THEN icase_vector ELSE @,
                  !.default_icase_vector = IF update_vector THEN icase_vector ELSE @,
                  !.animate_enabled = (IF update_disp THEN icase_disp ELSE win.default_icase_disp) # NoCase,
                  !.bad = (@ \ (IF update THEN DispEdits \cup VectorEdits ELSE {}))
                             \ (IF update_fringe THEN FringeEdits ELSE {})]
              a == on_apply(shown)
          IN  IF update
              THEN /\ win' = a.win
                   /\ event' = Called("update_legend", a.passed, a.external, a.applied, TRUE, external_call, win.out_data)
              ELSE /\ win' = shown
                   /\ event' = Called("update_legend", "none", FALSE, FALSE, FALSE, external_call, win.out_data)
    /\ UNCHANGED <<utilVars, loadVars>>

\* clear_disp (lines 345-354)
ClearedDisp(w) == [w EXCEPT !.icase_disp = NoCase, !.default_icase_disp = NoCase]

\* clear_vector (lines 356-362)
ClearedVector(w) == [w EXCEPT !.icase_vector = NoCase, !.default_icase_vector = NoCase]

ClearDisp ==
    /\ win.open
    /\ win' = ClearedDisp(win)
    /\ event' = Called("clear_disp", "none", FALSE, FALSE, FALSE, FALSE, win.out_data)
    /\ UNCHANGED <<utilVars, loadVars>>

ClearVector ==
    /\ win.open
    /\ win' = ClearedVector(win)
    /\ event' = Called("clear_vector", "none", FALSE, FALSE, FALSE, FALSE, win.out_data)
    /\ UNCHANGED <<utilVars, loadVars>>

\* clear (lines 364-370)
Clear ==
    /\ win.open
    /\ win' = ClearedVector(ClearedDisp([win EXCEPT !.icase_fringe = NoCase, !.default_icase_fringe = NoCase]))
    /\ event' = Called("clear", "none", FALSE, FALSE, FALSE, FALSE, win.out_data)
    /\ UNCHANGED <<utilVars, loadVars>>

\* the user types in an edit: a text that passes its check, or, while every
\* other text passes, one that does not
EditText ==
    /\ win.open
    /\ \E edit \in AllEdits :
          \/ win' = [win EXCEPT !.bad = @ \ {edit}]
          \/ /\ win.bad = {}
             /\ win' = [win EXCEPT !.bad = {edit}]
    /\ event' = Called("edit", "none", FALSE, FALSE, FALSE, FALSE, win.out_data)
    /\ UNCHANGED <<utilVars, loadVars>>

OnValidate ==
    /\ win.open
    /\ LET v == on_validate(win)
       IN  /\ win' = [win EXCEPT !.out_data = v.out_data]
           /\ event' = Called("on_validate", v.ret, FALSE, FALSE, FALSE, FALSE, win.out_data)
    /\ UNCHANGED <<utilVars, loadVars>>

\* the Apply button
OnApply ==
    /\ win.open
    /\ LET a == on_apply(win)
       IN  /\ win' = a.win
           /\ event' = Called("on_apply", a.passed, a.external, a.applied, FALSE, FALSE, win.out_data)
    /\ UNCHANGED <<utilVars, loadVars>>

\* on_ok (lines 905-910)
OnOk ==
    /\ win.open
    /\ LET a == on_apply(win)
       IN  /\ win' = [a.win EXCEPT !.open = ~(a.passed = "True")]
           /\ event' = Called("on_ok", a.passed, a.external, a.applied, FALSE, FALSE, win.out_data)
    /\ UNCHANGED <<utilVars, loadVars>>

\* on_cancel (lines 912-915)
OnCancel ==
    /\ win.open
    /\ win' = [win EXCEPT !.out_data = [@ EXCEPT !["close"] = "True"], !.open = FALSE]
    /\ event' = Called("on_cancel", "none", FALSE, FALSE, FALSE, FALSE, win.out_data)
    /\ UNCHANGED <<utilVars, loadVars>>

NextLegend ==
    \/ UpdateLegend
    \/ ClearDisp
    \/ ClearVector
    \/ Clear
    \/ EditText
    \/ OnValidate
    \/ OnApply
    \/ OnOk
    \/ OnCancel

SpecLegend == InitLegend /\ [][NextLegend]_vars

\* ================================================================ properties
\* the call ran to its end or to an exception
Ran == status \in {"ok", "failed"}

\* node ids named by the rows of a face table
ReferencedIds(faces) ==
    UNION {Values(SubSeq(faces[c], 3, Len(faces[c]))) : c \in DOMAIN faces}

\* node ids named by a face of the tables given to the packer but absent
\* from the node set
MissingIds ==
    (ReferencedIds(model.tris) \cup ReferencedIds(model.quads)) \ Values(model.node_id)

RECURSIVE CellRows(_)
\* the n_nodes stream the renderer was given, cut into one row per cell: a
\* node count d followed by d entries
CellRows(stream) ==
    IF stream = <<>> THEN <<>>
    ELSE LET d == stream[1]
             n == IF d >= 0 /\ d + 1 <= Len(stream) THEN d + 1 ELSE Len(stream)
         IN  <<SubSeq(stream, 1, n)>> \o CellRows(SubSeq(stream, n + 1, Len(stream)))

\* packed node count of every cell
PackedNodeCounts ==
    LET rows == CellRows(ugrid.n_nodes) IN [c \in DOMAIN rows |-> rows[c][1]]

\* packed local node indices of every cell
PackedIndices ==
    LET rows == CellRows(ugrid.n_nodes) IN [c \in DOMAIN rows |-> Tail(rows[c])]

\* the faces given to the packer, quads first, as rows of raw node ids
PackedFaces ==
    [c \in DOMAIN model.quads |-> SubSeq(model.quads[c], 3, 6)]
    \o [c \in DOMAIN model.tris |-> SubSeq(model.tris[c], 3, 5)]

NQ == Len(model.quads)
NT == Len(model.tris)

\* ---------------------------------------------------------------- C1
\* C1: a load that fails a fatal check leaves gui, the grid and the result
\* cases exactly as they were before the load began.
\* The code sets gui.nnodes, gui.nelements and the grid's points (lines
\* 73-82) before it checks the node ids (line 92), the referenced nodes
\* (line 144) and the fields (lines 214, 240).
C1_AllOrNothing ==
    [][(status' = "failed" /\ err'.type = "AssertionError"
                           /\ err'.line \in {71, 92, 144, 214, 240}) =>
          (gui' = gui /\ ugrid' = ugrid /\ result_cases' = result_cases /\ form' = form)]_vars

\* ---------------------------------------------------------------- C2
\* C2: when a face names a node id that is not in the node set, packing
\* raises an error naming exactly the missing ids, before either shape group
\* is packed, and the renderer grid receives nothing.
C2_MissingNodeIsFatal ==
    (status # "ready" /\ MissingIds # {}) =>
        /\ status = "failed"
        /\ err = Raise("AssertionError", 144, MissingIds)
        /\ calls = <<>>
        /\ ugrid = EmptyGrid

\* the quads, packed first, are all on known nodes; a triangle is not
C2_Witness ==
    /\ status = "failed"
    /\ err.line = 144
    /\ NQ > 0
    /\ ReferencedIds(model.quads) \subseteq Values(model.node_id)
    /\ ~(ReferencedIds(model.tris) \subseteq Values(model.node_id))

\* ---------------------------------------------------------------- C3
\* C3: a load whose node-id array holds a duplicate fails before any
\* connectivity array is built and before anything is written to the grid.
\* The duplicate check (line 92) comes after ugrid.Allocate and
\* ugrid.SetPoints (lines 78-82).
C3_DuplicateFailsBeforeAnyWrite ==
    (Ran /\ NUnique(model.node_id) # Len(model.node_id)) =>
        (status = "failed" /\ calls = <<>>)

C5_CumulativeOffsets ==
    status = "ok" =>
        /\ ugrid.cell_offset[1] = PackedNodeCounts[1]
        /\ \A i \in 2..Len(ugrid.cell_offset) :
              ugrid.cell_offset[i] - ugrid.cell_offset[i - 1] = PackedNodeCounts[i]

\* two quads are followed by triangles
C5_Witness == status = "ok" /\ NQ = 2 /\ NT >= 1

\* ---------------------------------------------------------------- C6
\* C6: node counts are NQ fours then NT threes, cell types NQ quad codes
\* then NT triangle codes, the codes differ, a cell has four nodes exactly
\* when it has the quad code; 2 quads + 3 triangles give 5 cells with node
\* counts 4,4,3,3,3 and offsets 4,8,11,14,17.
C6_CountsAndTypes ==
    status = "ok" =>
        /\ PackedNodeCounts = [k \in 1..(NQ + NT) |-> IF k <= NQ THEN 4 ELSE 3]
        /\ ugrid.cell_type = [k \in 1..(NQ + NT) |-> IF k <= NQ THEN 9 ELSE 5]
        /\ VtkQuad = 9 /\ VtkTriangle = 5
        /\ \A k \in DOMAIN ugrid.cell_type :
              (PackedNodeCounts[k] = 4) <=> (ugrid.cell_type[k] = VtkQuad)
        /\ (NQ = 2 /\ NT = 3) =>
              /\ ugrid.nelement = 5
              /\ PackedNodeCounts = <<4, 4, 3, 3, 3>>
              /\ ugrid.cell_offset = <<4, 8, 11, 14, 17>>

C6_Witness == status = "ok" /\ NQ = 2 /\ NT = 3

\* ---------------------------------------------------------------- C7
\* C7: every packed node index is the 0-based position of the face's raw
\* node id in the node-id array, whatever the order of that array.
C7_LocalIndices ==
    status = "ok" =>
        /\ Len(PackedIndices) = Len(PackedFaces)
        /\ \A c \in DOMAIN PackedFaces :
              /\ Len(PackedIndices[c]) = Len(PackedFaces[c])
              /\ \A j \in DOMAIN PackedFaces[c] :
                    /\ PackedIndices[c][j] \in 0..(Len(model.node_id) - 1)
                    /\ model.node_id[PackedIndices[c][j] + 1] = PackedFaces[c][j]

\* the node ids are not in ascending order
C7_Witness ==
    /\ status = "ok"
    /\ NQ >= 1 /\ NT >= 1
    /\ \E i, j \in DOMAIN model.node_id : i < j /\ model.node_id[i] > model.node_id[j]

AllFaces == model.quads \o model.tris

\* the filter of the settings keeps this face
Kept(row) == Keep(row[2], settings.remove, settings.include)

\* C9: when the region filter removes every face of an otherwise sound
\* mesh, the load completes: zero elements, zero-length per-element arrays
\* and a packed output of zero cells.
\* _create_elements takes all_nodes.min() of the empty array (line 142),
\* which raises ValueError.
C9_EmptyFilterLoads ==
    (/\ Ran
     /\ AllFaces # <<>>
     /\ \A r \in DOMAIN AllFaces : ~Kept(AllFaces[r])
     /\ NUnique(model.node_id) = Len(model.node_id)) =>
        /\ status = "ok"
        /\ gui.nelements = 0
        /\ gui.element_ids = <<>>
        /\ ugrid.nelement = 0
        /\ ugrid.cell_type = <<>>

\* ---------------------------------------------------------------- C10
\* the row of the face with this element id
FaceOf(eid) == CHOOSE row \in Values(AllFaces) : row[1] = eid

\* the row of model.results of the element with this id
ResultRowOf(eid) ==
    model.results.rows[CHOOSE r \in DOMAIN AllFaces : AllFaces[r][1] = eid]

IsQuadId(eid) == \E c \in DOMAIN model.quads : model.quads[c][1] = eid

\* area, centroid and normal of the face with this element id
GeometryOf(eid) ==
    FaceGeometry(model, SubSeq(FaceOf(eid), 3, Len(FaceOf(eid))))

\* C10: after a load, gui.element_ids is the kept quad ids followed by the
\* kept triangle ids, and row k of the region field, of every imported
\* field, of normal, centroid and area and of the node-count field is the
\* value of the element with id element_ids[k]; the node-count field is 4 at
\* the quads, 3 at the triangles and equal to the packed node counts.
C10_ElementOrder ==
    status = "ok" =>
        LET ids == gui.element_ids
            n == Len(ids)
            nq == Cardinality({k \in 1..n : IsQuadId(ids[k])})
            at(f(_)) == [k \in 1..n |-> f(ids[k])]
            region(eid) == FaceOf(eid)[2]
            normal(eid) == GeometryOf(eid).normal
            centroid(eid) == GeometryOf(eid).centroid
            area(eid) == GeometryOf(eid).area
            nx(eid) == GeometryOf(eid).normal[1]
            ny(eid) == GeometryOf(eid).normal[2]
            nz(eid) == GeometryOf(eid).normal[3]
            nnodes(eid) == IF IsQuadId(eid) THEN 4 ELSE 3
        IN  /\ Values(ids) = {AllFaces[r][1] : r \in {x \in DOMAIN AllFaces : Kept(AllFaces[x])}}
            /\ NUnique(ids) = n
            /\ \A k \in 1..n : IsQuadId(ids[k]) <=> k <= nq
            /\ result_cases[1].res.scalar = ids
            /\ result_cases[2].res.scalar = at(region)
            /\ derived.normal = at(normal)
            /\ derived.centroid = at(centroid)
            /\ derived.area = at(area)
            /\ result_cases[4].res.scalar = at(nx)
            /\ result_cases[5].res.scalar = at(ny)
            /\ result_cases[6].res.scalar = at(nz)
            /\ derived.nnodes_array = at(nnodes)
            /\ result_cases[7].res.scalar = at(nnodes)
            /\ PackedNodeCounts = at(nnodes)
            /\ \A c \in 1..model.results.ncols :
                  result_cases[7 + c].res.scalar =
                      [k \in 1..n |->
                          IF c = 1 THEN Convert(ResultRowOf(ids[k])[1], "Pa", "psi")
                          ELSE ResultRowOf(ids[k])[c]]

\* a quad and a triangle are kept, and the triangle has the smaller id
C10_Witness ==
    /\ status = "ok"
    /\ \E i, j \in DOMAIN gui.element_ids :
          /\ i < j
          /\ gui.element_ids[i] > gui.element_ids[j]
          /\ IsQuadId(gui.element_ids[i])
          /\ ~IsQuadId(gui.element_ids[j])

\* ================================================================ field assembler
\* the arguments of the _fill_fluent_case call of the state
ElementIds == filtered.element_id
NCols == filtered.results.ncols
NRows == Len(filtered.results.rows)

\* number of entries the loop over titles[1:] adds
NImported == Len(form) - 8

\* ---------------------------------------------------------------- C11
\* C11: the catalog lists NodeID, ElementID, Region, the normal bundle
\* (Normal, NormalX, NormalY, NormalZ), Nnodes and then the imported titles
\* in declared order; entry i of form names case index i, the case stored
\* under index i is the one form names, and the case indices are 0..N-1.
C11_PresentationOrder ==
    status = "ok" =>
        LET n == Len(form)
        IN  /\ [i \in 1..n |-> form[i][1]] =
                  <<"NodeID", "ElementID", "Region", "Normal",
                    "NormalX", "NormalY", "NormalZ", "Nnodes">>
                  \o SubSeq(model.titles, 2, Len(model.titles))
            /\ \A i \in 1..n : form[i][2] = i - 1
            /\ DOMAIN result_cases = 0..(n - 1)
            /\ \A i \in 1..n : result_cases[i - 1].key = <<0, form[i][1]>>
            /\ result_cases[0].res.scalar = model.node_id
            /\ result_cases[1].res.scalar = ElementIds
            /\ result_cases[2].res.scalar = filtered.region
            /\ result_cases[3].res.class = "NormalResult"
            /\ \A k \in 1..3 : result_cases[3 + k].res.scalar = Column(derived.normal, k)
            /\ result_cases[7].res.scalar = derived.nnodes_array

\* a catalog with two imported fields
C11_Witness == status = "ok" /\ Len(form) = 10 /\ Len(ElementIds) >= 1

\* ---------------------------------------------------------------- C12
\* C12: with titles t0..tn and n result columns, the catalog has exactly n
\* imported entries after the eight fixed ones; t0 names no entry, the entry
\* at position i (0-based) of the imported ones is named t(i+1) and holds
\* column i of results, and no column index is out of range.
C12_ImportedColumns ==
    (Ran /\ NCols = Len(model.titles) - 1) =>
        /\ err.type # "IndexError"
        /\ status = "ok" =>
              /\ NImported = NCols
              /\ \A k \in DOMAIN form : form[k][1] # model.titles[1]
              /\ \A i \in 0..(NCols - 1) :
                    /\ form[9 + i] = <<model.titles[i + 2], 8 + i>>
                    /\ result_cases[8 + i].res.title = model.titles[i + 2]
                    /\ result_cases[8 + i].res.header = model.titles[i + 2]
                    /\ result_cases[8 + i].res.scalar = Column(filtered.results.rows, i + 1)

\* two columns and three titles, with at least one element
C12_Witness ==
    /\ status = "ok"
    /\ NCols = 2 /\ Len(model.titles) = 3
    /\ Len(ElementIds) >= 1

\* ---------------------------------------------------------------- C13
\* C13: when the element-id array and the region array differ in length, or
\* there is an imported field and the result rows are not one per element
\* id, _fill_fluent_case raises its length assertion and returns nothing.
C13_LengthMismatchIsFatal ==
    (/\ Ran
     /\ \/ Len(ElementIds) # Len(filtered.region)
        \/ (Len(model.titles) >= 2 /\ NCols >= 1 /\ NRows # Len(ElementIds))) =>
        /\ status = "failed"
        /\ err.type = "AssertionError"
        /\ err.line \in {214, 240}
        /\ form = <<>>

\* one more element id than rows of the imported field
C13_Witness ==
    /\ status = "failed"
    /\ err.line = 240
    /\ Len(ElementIds) = Len(filtered.region)
    /\ Len(ElementIds) = NRows + 1

\* ---------------------------------------------------------------- C14
\* C14: in a returned catalog the node-id field has one value per node and
\* the element-id, region, normal-component, node-count and imported fields
\* have one value per element id.
\* _fill_fluent_case compares len(element_ids) with len(region) (line 214)
\* and with each imported column (line 240) only: the lengths of normal and
\* nnodes_array are never looked at.
C14_FieldLengths ==
    status = "ok" =>
        /\ Len(result_cases[0].res.scalar) = Len(model.node_id)
        /\ \A icase \in (DOMAIN result_cases) \ {0, 3} :
              Len(result_cases[icase].res.scalar) = Len(ElementIds)

\* ---------------------------------------------------------------- C15
\* is the case a GuiResult bound to the cells
CellBound(icase) ==
    /\ result_cases[icase].res.class = "GuiResult"
    /\ result_cases[icase].res.location = "centroid"

RowsIn(faces, R) == {faces[c] : c \in {x \in DOMAIN faces : faces[x][2] \in R}}

\* position of a row in a face table
PosIn(faces, row) == CHOOSE c \in DOMAIN faces : faces[c] = row

\* the kept rows are the rows of S, each once
KeepsExactly(kept, S) == Values(kept) = S /\ Len(kept) = Cardinality(S)

\* ---------------------------------------------------------------- C16
\* C16: with a non-empty regions_to_include the filter keeps the faces of
\* both shapes whose region is in regions_to_include and no others, whatever
\* regions_to_remove holds.
C16_IncludeWins ==
    (status = "ok" /\ settings.include # {}) =>
        /\ KeepsExactly(filtered.quads, RowsIn(model.quads, settings.include))
        /\ KeepsExactly(filtered.tris, RowsIn(model.tris, settings.include))

\* a region is in both lists; a face of it is kept and another face dropped
C16_Witness ==
    /\ status = "ok"
    /\ settings.include \cap settings.remove # {}
    /\ \E r \in DOMAIN filtered.region : filtered.region[r] \in settings.remove
    /\ Len(filtered.element_id) < Len(AllFaces)

\* ---------------------------------------------------------------- C17
\* C17: with an empty regions_to_include and a non-empty regions_to_remove
\* the filter keeps the faces whose region is not in regions_to_remove and
\* no others; element_id, region and the result rows are those of the kept
\* faces, quads first.
C17_RemoveDrops ==
    (status = "ok" /\ settings.include = {} /\ settings.remove # {}) =>
        LET others == (1..MaxRegion) \ settings.remove
            kept == filtered.quads \o filtered.tris
        IN  /\ KeepsExactly(filtered.quads, RowsIn(model.quads, others))
            /\ KeepsExactly(filtered.tris, RowsIn(model.tris, others))
            /\ filtered.element_id = Column(kept, 1)
            /\ filtered.region = Column(kept, 2)
            /\ filtered.results.rows = [k \in DOMAIN kept |-> ResultRowOf(kept[k][1])]

\* a face is dropped and a face is kept
C17_Witness ==
    /\ status = "ok"
    /\ settings.include = {} /\ settings.remove # {}
    /\ Len(filtered.element_id) >= 1
    /\ Len(filtered.element_id) < Len(AllFaces)

\* ---------------------------------------------------------------- C18
\* the kept rows come in the order they have in the table
InTableOrder(kept, faces) ==
    \A i, j \in DOMAIN kept :
        i < j => PosIn(faces, kept[i]) < PosIn(faces, kept[j])

\* the filter output read as a mesh again
FilteredAsModel ==
    [model EXCEPT !.quads = filtered.quads, !.tris = filtered.tris,
                  !.results = filtered.results]

\* C18: the kept faces of each shape keep the relative order of the input,
\* whatever the two lists hold; with both lists empty the filter returns every
\* face in its original order and filtering its output again changes nothing.
C18_StableFilter ==
    status = "ok" =>
        /\ Values(filtered.quads) \subseteq Values(model.quads)
        /\ Values(filtered.tris) \subseteq Values(model.tris)
        /\ InTableOrder(filtered.quads, model.quads)
        /\ InTableOrder(filtered.tris, model.tris)
        /\ (settings = NoFilter) =>
              /\ filtered.quads = model.quads
              /\ filtered.tris = model.tris
              /\ filtered.element_id = Column(AllFaces, 1)
              /\ filtered.results = model.results
              /\ Filtered(FilteredAsModel, settings) = filtered

\* two kept faces of one shape: the first has the larger id and the larger
\* region, under a filter that names regions
C18_Witness ==
    /\ status = "ok"
    /\ settings # NoFilter
    /\ \E t \in {filtered.quads, filtered.tris} :
          /\ Len(t) >= 2
          /\ t[1][1] > t[2][1]
          /\ t[1][2] > t[2][2]

\* ================================================================ lifecycle
\* ---------------------------------------------------------------- C19
\* C19: after a load that succeeded, whatever was loaded before, the gui
\* describes the mesh of that load only: node_ids and element_ids are its
\* node ids and kept element ids, nnodes and nelements are their lengths,
\* nid_map and isubcase_name_map were set anew, the grid holds its points and
\* cells, and the cases are the 8 + ncols cases of this mesh, each listed
\* once in form.
C19_OnlyLatestMesh ==
    status = "ok" =>
        /\ gui.node_ids = model.node_id
        /\ gui.nnodes = Len(gui.node_ids)
        /\ gui.element_ids = filtered.element_id
        /\ gui.nelements = Len(gui.element_ids)
        /\ gui.nid_map = <<>>
        /\ gui.isubcase_name_map = (1 :> <<"Fluent", "">>)
        /\ Len(ugrid.points) = gui.nnodes
        /\ ugrid.allocated = gui.nelements
        /\ ugrid.nelement = gui.nelements
        /\ DOMAIN result_cases = 0..(7 + model.results.ncols)
        /\ Len(form) = 8 + model.results.ncols
        /\ \A i \in DOMAIN form : form[i][2] = i - 1
        /\ result_cases[0].res.scalar = gui.node_ids
        /\ \A icase \in (DOMAIN result_cases) \ {0, 3} :
              Len(result_cases[icase].res.scalar) = gui.nelements

\* the second load into a gui; the mesh before it had more nodes, more
\* elements and more fields
C19_Witness ==
    /\ status = "ok"
    /\ nloads = 2
    /\ gui.nnodes < Len(OldMesh.node_id)
    /\ gui.nelements < Len(OldMesh.quads) + Len(OldMesh.tris)
    /\ model.results.ncols < OldMesh.results.ncols

\* ================================================================ geometry
\* ---------------------------------------------------------------- C20
\* the coordinates of the node with this id
PointOf(nid) == model.xyz[CHOOSE i \in DOMAIN model.node_id : model.node_id[i] = nid]

\* C20: for a triangle a, b, c with n the cross product of two edges at one
\* vertex, the area is |n|/2, the normal is n/|n| and the centroid is
\* (a + b + c)/3; the triangle wound the other way round has the same area
\* and centroid and the opposite normal; the vertices (0,0,0), (1,0,0),
\* (0,1,0) give area 1/2, centroid (1/3, 1/3, 0) and normal (0, 0, 1).
\* Areas are held as sqrt(rad)/div, normal components as num/sqrt(rad) and
\* centroids as sum/div.
C20_TriangleGeometry ==
    status = "ok" =>
        /\ Len(derived.area) = Len(filtered.tris)
        /\ \A t \in DOMAIN filtered.tris :
              LET a == PointOf(filtered.tris[t][3])
                  b == PointOf(filtered.tris[t][4])
                  c == PointOf(filtered.tris[t][5])
                  \* the two edges anchored at the second vertex
                  n == <<(c[2] - b[2]) * (a[3] - b[3]) - (c[3] - b[3]) * (a[2] - b[2]),
                         (c[3] - b[3]) * (a[1] - b[1]) - (c[1] - b[1]) * (a[3] - b[3]),
                         (c[1] - b[1]) * (a[2] - b[2]) - (c[2] - b[2]) * (a[1] - b[1])>>
                  nn == n[1] * n[1] + n[2] * n[2] + n[3] * n[3]
              IN  /\ derived.area[t] = [rad |-> nn, div |-> 2]
                  /\ derived.normal[t] = [k \in 1..3 |-> [num |-> n[k], rad |-> nn]]
                  /\ derived.centroid[t] =
                        [sum |-> [k \in 1..3 |-> a[k] + b[k] + c[k]], div |-> 3]
        /\ derived.area[2] = derived.area[1]
        /\ derived.centroid[2] = derived.centroid[1]
        /\ \A k \in 1..3 :
              /\ derived.normal[2][k].num = 0 - derived.normal[1][k].num
              /\ derived.normal[2][k].rad = derived.normal[1][k].rad
        /\ (model.xyz = <<<<0, 0, 0>>, <<1, 0, 0>>, <<0, 1, 0>>>>) =>
              /\ derived.area[1] = [rad |-> 1, div |-> 2]
              /\ derived.centroid[1] = [sum |-> <<1, 1, 0>>, div |-> 3]
              /\ derived.normal[1] =
                    <<[num |-> 0, rad |-> 1], [num |-> 0, rad |-> 1], [num |-> 1, rad |-> 1]>>

\* the right triangle (0,0,0), (1,0,0), (0,1,0)
C20_Witness ==
    /\ status = "ok"
    /\ model.xyz = <<<<0, 0, 0>>, <<1, 0, 0>>, <<0, 1, 0>>>>
    /\ Len(derived.area) = 2

\* ---------------------------------------------------------------- C21
\* C21: the centroid of a quadrilateral a, b, c, d is (a + b + c + d)/4; its
\* area and normal come from n, the sum of the cross products of the
\* triangles a, b, c and a, c, d taken with the triangle convention (edges
\* at the first vertex): area |n|/2, normal n/|n|, the same way for every
\* quadrilateral; wound the other way round it has the same area and
\* centroid and the opposite normal; the unit square (0,0,0), (1,0,0),
\* (1,1,0), (0,1,0) has area 1, centroid (1/2, 1/2, 0) and normal (0, 0, 1),
\* and (0, 0, -1) when wound the other way round.  The quads are rows 1 and
\* 2 of the per-element arrays.
C21_QuadGeometry ==
    status = "ok" =>
        /\ Len(derived.area) = Len(filtered.quads) + Len(filtered.tris)
        /\ \A q \in DOMAIN filtered.quads :
              LET a == PointOf(filtered.quads[q][3])
                  b == PointOf(filtered.quads[q][4])
                  c == PointOf(filtered.quads[q][5])
                  d == PointOf(filtered.quads[q][6])
                  tri(u, v) == <<u[2] * v[3] - u[3] * v[2],
                                 u[3] * v[1] - u[1] * v[3],
                                 u[1] * v[2] - u[2] * v[1]>>
                  e(x) == <<x[1] - a[1], x[2] - a[2], x[3] - a[3]>>
                  n1 == tri(e(b), e(c))
                  n2 == tri(e(c), e(d))
                  n == <<n1[1] + n2[1], n1[2] + n2[2], n1[3] + n2[3]>>
                  nn == n[1] * n[1] + n[2] * n[2] + n[3] * n[3]
              IN  /\ derived.area[q] = [rad |-> nn, div |-> 2]
                  /\ derived.normal[q] = [k \in 1..3 |-> [num |-> n[k], rad |-> nn]]
                  /\ derived.centroid[q] =
                        [sum |-> [k \in 1..3 |-> a[k] + b[k] + c[k] + d[k]], div |-> 4]
        /\ derived.area[2] = derived.area[1]
        /\ derived.centroid[2] = derived.centroid[1]
        /\ \A k \in 1..3 :
              /\ derived.normal[2][k].num = 0 - derived.normal[1][k].num
              /\ derived.normal[2][k].rad = derived.normal[1][k].rad
        /\ (model.xyz = <<<<0, 0, 0>>, <<1, 0, 0>>, <<1, 1, 0>>, <<0, 1, 0>>>>) =>
              \* sqrt(rad)/div = 1
              /\ derived.area[1].rad = derived.area[1].div * derived.area[1].div
              \* sum/div = (1/2, 1/2, 0)
              /\ \A k \in 1..3 :
                    2 * derived.centroid[1].sum[k] =
                        derived.centroid[1].div * <<1, 1, 0>>[k]
              \* num/sqrt(rad) = 0, 0, 1 and 0, 0, -1
              /\ derived.normal[1][1].num = 0
              /\ derived.normal[1][2].num = 0
              /\ derived.normal[1][3].num > 0
              /\ derived.normal[1][3].num * derived.normal[1][3].num = derived.normal[1][3].rad
              /\ derived.normal[2][1].num = 0
              /\ derived.normal[2][2].num = 0
              /\ derived.normal[2][3].num < 0
              /\ derived.normal[2][3].num * derived.normal[2][3].num = derived.normal[2][3].rad

\* the unit square, wound both ways, and a triangle after them
C21_Witness ==
    /\ status = "ok"
    /\ model.xyz = <<<<0, 0, 0>>, <<1, 0, 0>>, <<1, 1, 0>>, <<0, 1, 0>>>>
    /\ Len(derived.area) = 3
    /\ derived.area[1] = [rad |-> 4, div |-> 2]

\* ---------------------------------------------------------------- C22
\* the points u, v, w lie on one line (or coincide)
Collinear(u, v, w) ==
    /\ (v[2] - u[2]) * (w[3] - u[3]) = (v[3] - u[3]) * (w[2] - u[2])
    /\ (v[3] - u[3]) * (w[1] - u[1]) = (v[1] - u[1]) * (w[3] - u[3])
    /\ (v[1] - u[1]) * (w[2] - u[2]) = (v[2] - u[2]) * (w[1] - u[1])

\* every three nodes of the face row lie on one line
Degenerate(row) ==
    \A i, j, k \in 3..Len(row) :
        Collinear(PointOf(row[i]), PointOf(row[j]), PointOf(row[k]))

NonDegenerate(row) == ~Degenerate(row)

\* the kept element at row k of the per-element arrays is degenerate
DegenerateAt(k) == Degenerate(FaceOf(gui.element_ids[k]))

NonDegenerateAt(k) == ~DegenerateAt(k)

\* the mesh and the filter give the load nothing else to fail on: unique
\* node ids, every node of a kept face in the node set, a face kept
SoundMesh ==
    /\ NUnique(model.node_id) = Len(model.node_id)
    /\ (ReferencedIds(filtered.tris) \cup ReferencedIds(filtered.quads))
           \subseteq Values(model.node_id)
    /\ filtered.element_id # <<>>

Rescaled(mdl, k) ==
    [mdl EXCEPT !.xyz = [i \in DOMAIN mdl.xyz |-> [j \in 1..3 |-> k * mdl.xyz[i][j]]]]

\* two normal components num/sqrt(rad) have the same value
SameComponent(a, b) ==
    /\ a.num * a.num * b.rad = b.num * b.num * a.rad
    /\ (a.num > 0) = (b.num > 0)
    /\ (a.num < 0) = (b.num < 0)

\* the imported columns of the mesh files that hold a pressure: both the
\* first (e.g. static pressure) and the second (e.g. total pressure)
PressureColumns == {1, 2}

\* C23: loading the mesh with its coordinates converted beforehand gives the
\* same packed connectivity, element ids, region field, node-count field
\* and unit normals as the load that converts after the derivation; the
\* points of the grid are the converted node coordinates; every imported
\* field that holds a pressure is converted; ids and regions are stored as
\* read.
\* Line 68 converts results[:, 0] only: a second pressure column is stored
\* in the unit of the file.
C23_UnitConversion ==
    status = "ok" =>
        /\ \A k \in 1..MaxScale :
              LET before == load_fluent_geometry(Pristine, Rescaled(model, k), settings, FALSE)
              IN  /\ before.status = "ok"
                  /\ before.ugrid.n_nodes = ugrid.n_nodes
                  /\ before.ugrid.cell_type = ugrid.cell_type
                  /\ before.ugrid.cell_offset = ugrid.cell_offset
                  /\ before.gui.element_ids = gui.element_ids
                  /\ before.result_cases[1].res.scalar = result_cases[1].res.scalar
                  /\ before.result_cases[2].res.scalar = result_cases[2].res.scalar
                  /\ before.result_cases[7].res.scalar = result_cases[7].res.scalar
                  /\ \A e \in DOMAIN derived.normal : \A j \in 1..3 :
                        /\ SameComponent(before.derived.normal[e][j], derived.normal[e][j])
                        /\ SameComponent(before.result_cases[3 + j].res.scalar[e],
                                         result_cases[3 + j].res.scalar[e])
        /\ ugrid.points = [i \in DOMAIN model.xyz |->
                              [j \in 1..3 |-> Convert(model.xyz[i][j], "m", "in")]]
        /\ result_cases[1].res.scalar = filtered.element_id
        /\ result_cases[2].res.scalar = filtered.region
        /\ \A c \in 1..filtered.results.ncols :
              c \in PressureColumns =>
                 result_cases[7 + c].res.scalar =
                    [e \in DOMAIN filtered.results.rows |->
                        Convert(filtered.results.rows[e][c], "Pa", "psi")]

\* ================================================================ femutils
\* ---------------------------------------------------------------- C24
\* the returned vector w (held as vec/div) is not the zero vector
NonZero(w) == w.div # 0 /\ w.vec # <<0, 0, 0>>

\* the dot product of w and v is 0
Perpendicular(w, v) == w.vec[1] * v[1] + w.vec[2] * v[2] + w.vec[3] * v[3] = 0

\* w is the vector x
IsVector(w, x) == \A k \in 1..3 : w.vec[k] = x[k] * w.div

ReadAs(y, x) ==
    /\ y.int = (IF x < 0 THEN 0 - x ELSE x)
    /\ y.frac = <<>>
    /\ y.neg = (x < 0)

C26_OkAndCancel ==
    /\ event.op = "on_ok" =>
          /\ event.passed = "True" => event.applied /\ ~win.open
          /\ event.passed # "True" => ~event.applied /\ win.open
    /\ event.op = "on_cancel" =>
          /\ ~win.open
          /\ win.out_data["close"] = "True"
          /\ ~event.applied

\* ---------------------------------------------------------------- C27
\* C27: on_validate never raises; it returns True exactly when every edit
\* checked for the active cases passes, with every key of out_data written
\* and clicked_ok and close set, also when no fringe case is active, and
\* returns False with out_data as it was otherwise.
C27_ValidateNeverRaises ==
    event.op = "on_validate" =>
        /\ event.passed \in {"True", "False"}
        /\ event.passed = "True" <=> CheckedEdits(win) \cap win.bad = {}
        /\ event.passed = "True" =>
              /\ \A k \in OutKeySet : win.out_data[k] \notin {"data", "unset"}
              /\ win.out_data["clicked_ok"] = "True"
              /\ win.out_data["close"] = "True"
        /\ event.passed = "False" => win.out_data = event.before

\* ---------------------------------------------------------------- C28
\* C28: after construction and after every update_legend, clear_disp,
\* clear_vector and clear, the 'Create Animation' button is enabled exactly
\* when _default_icase_disp is not None, and _icase_disp equals
\* _default_icase_disp.
C28_AnimateButton ==
    event.op \in {"__init__", "update_legend", "clear_disp", "clear_vector", "clear"} =>
        /\ win.animate_enabled <=> win.default_icase_disp # NoCase
        /\ win.icase_disp = win.default_icase_disp

\* ---------------------------------------------------------------- C29
\* C29: apply_legend is called only by an on_apply that passed validation
\* and found external_call True; an update_legend given external_call=False
\* that changes a case runs on_apply without calling apply_legend; and
\* external_call is True after every on_apply and after every
\* update_legend that changed a case.
C29_ExternalCall ==
    /\ event.applied => event.passed = "True" /\ event.external
    /\ (event.op = "update_legend" /\ event.update /\ ~event.arg) =>
          event.passed # "none" /\ ~event.applied
    /\ event.op \in {"on_apply", "on_ok"} => win.external_call
    /\ (event.op = "update_legend" /\ event.update) => win.external_call

====
